---- MODULE Spec2Model ----
(***************************************************************************)
(* Model of the options-data-api processor (src/src/data-processor.ts,     *)
(* src/src/utils.ts, src/src/types.ts): the bounded persistence runner     *)
(* (processSymbols / processSymbol / retry / writeJsonFile) and the        *)
(* aggregator (generateApiFiles), driven by process().                     *)
(*                                                                         *)
(* Symbols (Map keys) are modelled as the integers 1..n, the order of the  *)
(* sequence `symbols` being the Map's insertion order.  A task is the      *)
(* promise returned by one call of processSymbol; tasks are indexed by the *)
(* position of their symbol in `symbols`.                                  *)
(***************************************************************************)
EXTENDS Integers, Sequences, FiniteSets, TLC

\* ---------------------------------------------------------------- bounds
MaxKeys == 3
\* keys and contracts per key of the maps handed to generateApiFiles alone
MaxAggKeys == 2
MaxGroupLen == 2
\* contracts handed to groupBySymbol alone
MaxContracts == 3
\* rows handed to validateData alone
MaxRows == 3

\* ------------------------------------------------------ program constants
MAX_FILE_SIZE == 50 * 1024 * 1024
CpuCap == 16
maxRetries == 3
baseDelay == 1000
DECIMAL_PRECISION == 4
BATCH_SIZE == 5000

\* os.cpus().length as the host reports it (0 when CPU info is unavailable)
CpuCounts == {0, 1, 2, 17}

\* Buffer lengths convertJsonToBuffer can produce: the two sides of the limit
BufferLengths == {MAX_FILE_SIZE, MAX_FILE_SIZE + 1}

\* Error objects: the message and, for an error thrown by an invocation of
\* retry's operation, the attempt that threw it (each throw is a new object)
Err(msg, attempt) == [msg |-> msg, attempt |-> attempt]
NoError == Err("none", -1)
TooLarge(attempt) == Err("File too large", attempt)
WriteFailed(attempt) == Err("Failed to write file", attempt)
MkdirFailed == Err("Failed to create directory", -1)

VARIABLES
    cpus,           \* require('os').cpus().length
    symbols,        \* Array.from(symbolGroups.keys())
    pc,             \* position of process() / processSymbols / generateApiFiles
    i,              \* loop variable of processSymbols
    task,           \* per position: the processSymbol promise and its retry state
    results,        \* results array of processSymbols
    stats,          \* this.stats
    files,          \* set of locations fs.writeFile has written successfully
    indexArtifact,  \* content handed to writeJsonFile for symbols.json
    metadata,       \* content handed to writeJsonFile for metadata.json
    exitCode,       \* process.exit code, -1 while running
    \* history variables (observations, never read by the program)
    opCalls,        \* per position: number of invocations of retry's operation
    sinkLog,        \* set of <<location, length>> handed to fs.writeFile
    delays,         \* per position: sequence of sleep(delay) values
    attemptErr,     \* per position: error thrown by the most recent operation call
    launches,       \* per symbol: number of processSymbol calls
    aggCalls,       \* per aggregate artifact: number of writeJsonFile calls
    faults,         \* set of <<kind, location>>: failures that occurred, kind
                    \* "mkdir" (ensureDir), "size" (size check), "sink" (fs.writeFile)
    \* the stages before persistence
    symbolGroups,   \* the Map handed to processSymbols / generateApiFiles
    contracts,      \* argument of groupBySymbol
    grouped,        \* Map returned by groupBySymbol: keys in insertion order, groups
    raw,            \* argument of validateContract
    validation,     \* ValidationResult returned by validateContract
    rawData,        \* argument of validateData: the rows
    batchSize,      \* batchSize of validateData
    vi,             \* loop variable i of validateData: start of the batch
    vj,             \* loop variable j of validateData: position in the batch
    batchResults    \* batchResults of validateData

vars == <<cpus, symbols, pc, i, task, results, stats, files, indexArtifact,
          metadata, exitCode, opCalls, sinkLog, delays, attemptErr, launches,
          aggCalls, faults, symbolGroups, contracts, grouped, raw, validation,
          rawData, batchSize, vi, vj, batchResults>>

\* the variables of validateData
validateDataVars == <<rawData, batchSize, vi, vj, batchResults>>

\* the variables of the stages before persistence
stages == <<symbolGroups, contracts, grouped, raw, validation,
            validateDataVars>>

hist == <<opCalls, sinkLog, delays, attemptErr, launches, aggCalls, faults>>

\* ------------------------------------------------------------- helpers
Min(a, b) == IF a < b THEN a ELSE b

Range(s) == {s[x] : x \in DOMAIN s}

RECURSIVE Pow2(_)
Pow2(n) == IF n = 0 THEN 1 ELSE 2 * Pow2(n - 1)

\* insertion orders of the keys 1..n in the Map: ascending, descending and
\* rotated by one (tasks do not depend on the key's value, only the sort does)
KeyOrders(n) == {[p \in 1..n |-> p], [p \in 1..n |-> n + 1 - p],
                 [p \in 1..n |-> (p % n) + 1]}

\* Array.prototype.sort() on the key list: ascending insertion sort
RECURSIVE Insert(_, _)
Insert(x, s) ==
    IF s = <<>> THEN <<x>>
    ELSE IF x <= Head(s) THEN <<x>> \o s
    ELSE <<Head(s)>> \o Insert(x, Tail(s))

\* mutant: the key list is written in the Map's insertion order
SortKeys_Unsorted(s) == s

RECURSIVE SortKeys(_)
SortKeys(s) == IF s = <<>> THEN <<>> ELSE Insert(Head(s), SortKeys(Tail(s)))

\* ------------------------------------------------------- configuration
\* CONFIG.MAX_CONCURRENCY = Math.min(16, require('os').cpus().length)
MAX_CONCURRENCY == Min(CpuCap, cpus)

\* mutant: every key is launched at once, whatever CONFIG.MAX_CONCURRENCY
concurrency_Unbounded == Len(symbols)

\* const concurrency = Math.min(CONFIG.MAX_CONCURRENCY, symbols.length)
concurrency == Min(MAX_CONCURRENCY, Len(symbols))

\* join(apiOutputPath, SYMBOLS_DIR, `${symbol}.json`)
SymbolPath(symbol) == <<"symbols", symbol>>
SymbolsPath == <<"symbols.json", 0>>
MetadataPath == <<"metadata.json", 0>>

\* symbols.slice(i, i + concurrency), as positions of `symbols`
Batch == {p \in 1..Len(symbols) : i < p /\ p <= i + concurrency}

IdleTask == [st |-> "idle", attempt |-> 0, lastError |-> NoError,
             bufLen |-> 0, reason |-> NoError, size |-> 0]

Settled(t) == t.st \in {"fulfilled", "rejected"}
InFlight(t) == t.st \in {"dir", "write", "sleep"}

\* ------------------------------------------------- writeJsonFile / retry
\* mutant: the size check is missing
FileTooLarge_Unchecked(len) == FALSE

\* if (buffer.length > CONFIG.MAX_FILE_SIZE) throw
FileTooLarge(len) == len > MAX_FILE_SIZE

\* if (attempt < maxRetries) { ... await sleep(delay) }
CanRetry(attempt) == attempt < maxRetries

\* mutant: the delay grows linearly with the attempt
BackoffDelay_Linear(attempt) == baseDelay * (attempt + 1)

\* const delay = baseDelay * Math.pow(2, attempt)
BackoffDelay(attempt) == baseDelay * Pow2(attempt)

\* mutant: only the first error is kept
RecordError_First(prev, err) == IF prev = NoError THEN err ELSE prev

\* lastError = error instanceof Error ? error : new Error(String(error))
RecordError(prev, err) == err

\* the catch block of retry's loop body: remember the error, then either
\* sleep before the next attempt or leave the loop and throw lastError,
\* which processSymbol's catch rethrows (the promise is rejected)
Caught(t, err) ==
    IF CanRetry(t.attempt)
    THEN [t EXCEPT !.st = "sleep", !.lastError = RecordError(t.lastError, err)]
    ELSE [t EXCEPT !.st = "rejected",
                   !.lastError = RecordError(t.lastError, err),
                   !.reason = RecordError(t.lastError, err)]

DelaysAfter(p, t) ==
    IF CanRetry(t.attempt)
    THEN [delays EXCEPT ![p] = Append(@, BackoffDelay(t.attempt))]
    ELSE delays

\* one invocation of retry's operation, () => writeJsonFile(filePath, fileBuffer),
\* up to its first suspension: the size check throws synchronously, otherwise
\* the buffer is handed to fs.writeFile and the task awaits it
Invoke(p, t) ==
    /\ opCalls' = [opCalls EXCEPT ![p] = @ + 1]
    /\ IF FileTooLarge(t.bufLen)
       THEN /\ task' = [task EXCEPT ![p] = Caught(t, TooLarge(t.attempt))]
            /\ attemptErr' = [attemptErr EXCEPT ![p] = TooLarge(t.attempt)]
            /\ delays' = DelaysAfter(p, t)
            /\ faults' = faults \cup {<<"size", SymbolPath(symbols[p])>>}
            /\ sinkLog' = sinkLog
       ELSE /\ task' = [task EXCEPT ![p] = [t EXCEPT !.st = "write"]]
            /\ sinkLog' = sinkLog \cup {<<SymbolPath(symbols[p]), t.bufLen>>}
            /\ UNCHANGED <<attemptErr, delays, faults>>

\* ------------------------------------------------------ strings, numbers
\* A string is the sequence of its characters.
DigitChars == <<"0", "1", "2", "3", "4", "5", "6", "7", "8", "9">>

\* the decimal digits of n, zero-padded to `width` characters
RECURSIVE Digits(_, _)
Digits(n, width) ==
    IF width = 0 THEN <<>>
    ELSE Append(Digits(n \div 10, width - 1), DigitChars[(n % 10) + 1])

\* code units in ascending order, for the characters the model uses
UpperChars == <<"A", "C", "L", "P", "T", "U", "X">>
LowerChars == <<"a", "c", "l", "p", "t", "u", "x">>
CodeOrder == <<" ", "-">> \o DigitChars \o UpperChars \o LowerChars
CharCode(c) == CHOOSE j \in DOMAIN CodeOrder : CodeOrder[j] = c

\* a < b on strings: comparison of code units, a proper prefix being smaller
RECURSIVE StrLess(_, _)
StrLess(a, b) ==
    IF b = <<>> THEN FALSE
    ELSE IF a = <<>> THEN TRUE
    ELSE IF a[1] # b[1] THEN CharCode(a[1]) < CharCode(b[1])
    ELSE StrLess(Tail(a), Tail(b))

\* the text YYYY-MM-DD
DateStr(y, m, d) == Digits(y, 4) \o <<"-">> \o Digits(m, 2) \o <<"-">> \o Digits(d, 2)

RECURSIVE Pow10(_)
Pow10(n) == IF n = 0 THEN 1 ELSE 10 * Pow10(n - 1)

\* A number is the integer count of its units of 10^-(DECIMAL_PRECISION + 1),
\* one decimal more than the precision the validator rounds to.
One == Pow10(DECIMAL_PRECISION + 1)

\* ProcessedOptionContract; bid stands for the fields that take no part in
\* grouping, ordering or counting, the others of them are held fixed
Contract(symbol, date, expiration, type, strike, bid) ==
    [date |-> date, symbol |-> symbol, expiration |-> expiration,
     strike |-> strike, type |-> type, bid |-> bid, ask |-> bid + One,
     volume |-> 0, delta |-> 0, gamma |-> 0, theta |-> 0, vega |-> 0,
     rho |-> 0]

\* the groups of the persistence runs: one contract per key
OneContractGroups(keys) ==
    [k \in keys |-> <<Contract(k, DateStr(2025, 10, 15), DateStr(2025, 11, 21),
                               "call", 100 * One, One)>>]

\* validateData is not running
ValidateDataIdle ==
    /\ rawData = <<>>
    /\ batchSize = BATCH_SIZE
    /\ vi = 0
    /\ vj = 0
    /\ batchResults = <<>>

\* the stages before persistence are not running
StagesIdle ==
    /\ contracts = <<>>
    /\ grouped = [keys |-> <<>>, groups |-> <<>>]
    /\ raw = <<>>
    /\ validation = <<>>
    /\ ValidateDataIdle

\* this.stats as the constructor sets it
NewStats ==
    [totalRows |-> 0, validRows |-> 0, invalidRows |-> 0, uniqueSymbols |-> 0,
     filesSaved |-> 0, errors |-> <<>>, warnings |-> <<>>]

\* this.stats when processSymbols is called in a run whose n rows were all
\* accepted, one per symbol
StatsOfRows(n) ==
    [NewStats EXCEPT !.totalRows = n, !.validRows = n, !.uniqueSymbols = n]

NoMetadata == [symbolCount |-> 0, symbolsWithData |-> 0, errors |-> 0,
               totalContracts |-> 0, calls |-> 0, puts |-> 0, dataDate |-> <<>>]

\* ---------------------------------------------------------------- Init
Init ==
    /\ cpus \in CpuCounts
    /\ \E n \in 0..MaxKeys : symbols \in KeyOrders(n)
    /\ pc = "loop"
    /\ i = 0
    /\ task = [p \in 1..Len(symbols) |-> IdleTask]
    /\ results = <<>>
    /\ stats = StatsOfRows(Len(symbols))
    /\ files = {}
    /\ indexArtifact = <<>>
    /\ metadata = NoMetadata
    /\ exitCode = -1
    /\ opCalls = [p \in 1..Len(symbols) |-> 0]
    /\ sinkLog = {}
    /\ delays = [p \in 1..Len(symbols) |-> <<>>]
    /\ attemptErr = [p \in 1..Len(symbols) |-> NoError]
    /\ launches = [k \in Range(symbols) |-> 0]
    /\ aggCalls = [a \in {"index", "metadata"} |-> 0]
    /\ faults = {}
    /\ symbolGroups = OneContractGroups(Range(symbols))
    /\ StagesIdle

\* ------------------------------------------------------- processSymbols
\* batch.map(symbol => this.processSymbol(...)): every processSymbol of the
\* batch runs synchronously up to its first await (ensureDir)
WaveStart ==
    /\ pc = "loop"
    /\ i < Len(symbols)
    /\ task' = [p \in DOMAIN task |->
                   IF p \in Batch THEN [IdleTask EXCEPT !.st = "dir"] ELSE task[p]]
    /\ launches' = [k \in DOMAIN launches |->
                       launches[k] + Cardinality({p \in Batch : symbols[p] = k})]
    /\ pc' = "awaitWave"
    /\ UNCHANGED <<cpus, symbols, i, results, stats, files, indexArtifact,
                   metadata, exitCode, opCalls, sinkLog, delays, attemptErr,
                   aggCalls, faults>>
    /\ UNCHANGED stages

\* processSymbol: await ensureDir(dirname(filePath)) settles; on success the
\* artifact is serialized and retry makes its first attempt
EnsureDirTask(p) ==
    /\ pc = "awaitWave"
    /\ task[p].st = "dir"
    /\ \/ \E len \in BufferLengths : Invoke(p, [task[p] EXCEPT !.bufLen = len])
       \/ /\ task' = [task EXCEPT ![p] = [@ EXCEPT !.st = "rejected",
                                                   !.reason = MkdirFailed]]
          /\ faults' = faults \cup {<<"mkdir", SymbolPath(symbols[p])>>}
          /\ UNCHANGED <<opCalls, sinkLog, delays, attemptErr>>
    /\ UNCHANGED <<launches, aggCalls>>
    /\ UNCHANGED <<cpus, symbols, pc, i, results, stats, files, indexArtifact,
                   metadata, exitCode>>
    /\ UNCHANGED stages

\* await fs.writeFile(filePath, buffer) settles
SinkWrite(p) ==
    /\ pc = "awaitWave"
    /\ task[p].st = "write"
    /\ \/ /\ task' = [task EXCEPT ![p] = [@ EXCEPT !.st = "fulfilled",
                                                   !.size = task[p].bufLen]]
          /\ files' = files \cup {SymbolPath(symbols[p])}
          /\ stats' = [stats EXCEPT !.filesSaved = @ + 1]
          /\ UNCHANGED <<attemptErr, delays, faults>>
       \/ /\ task' = [task EXCEPT ![p] = Caught(@, WriteFailed(@.attempt))]
          /\ attemptErr' = [attemptErr EXCEPT ![p] = WriteFailed(task[p].attempt)]
          /\ delays' = DelaysAfter(p, task[p])
          /\ faults' = faults \cup {<<"sink", SymbolPath(symbols[p])>>}
          /\ UNCHANGED <<files, stats>>
    /\ UNCHANGED <<cpus, symbols, pc, i, results, indexArtifact, metadata,
                   exitCode, opCalls, sinkLog, launches, aggCalls>>
    /\ UNCHANGED stages

\* await sleep(delay) settles: the loop of retry makes its next attempt
SleepDone(p) ==
    /\ pc = "awaitWave"
    /\ task[p].st = "sleep"
    /\ Invoke(p, [task[p] EXCEPT !.attempt = @ + 1])
    /\ UNCHANGED <<cpus, symbols, pc, i, results, stats, files, indexArtifact,
                   metadata, exitCode, launches, aggCalls>>
    /\ UNCHANGED stages

\* mutant: Promise.all instead of Promise.allSettled, the await resumes at
\* the first rejection
AllSettled_PromiseAll ==
    \/ \A p \in Batch : task[p].st = "fulfilled"
    \/ \E p \in Batch : task[p].st = "rejected"

\* await Promise.allSettled(batchPromises) resumes
AllSettled == \A p \in Batch : Settled(task[p])

\* mutant: a key whose write needed a retry is reported failed with the
\* error of its last failed attempt
ResultOf_FirstAttemptOnly(p) ==
    IF task[p].st = "fulfilled" /\ task[p].attempt = 0
    THEN [symbol |-> symbols[p], success |-> TRUE, fileSize |-> task[p].size,
          error |-> NoError]
    ELSE [symbol |-> symbols[p], success |-> FALSE, fileSize |-> 0,
          error |-> task[p].lastError]

\* the SymbolProcessingResult pushed for batch position p
ResultOf(p) ==
    IF task[p].st = "fulfilled"
    THEN [symbol |-> symbols[p], success |-> TRUE, fileSize |-> task[p].size,
          error |-> NoError]
    ELSE [symbol |-> symbols[p], success |-> FALSE, fileSize |-> 0,
          error |-> task[p].reason]

\* mutant: the error is created without its symbol
ErrorOf_NoSymbol(p) == [type |-> "file_write", symbol |-> 0,
                        message |-> task[p].reason]

\* createError('file_write', ..., result.reason, undefined, symbol)
ErrorOf(p) == [type |-> "file_write", symbol |-> symbols[p],
               message |-> task[p].reason]

BatchSeq == [x \in 1..Cardinality(Batch) |-> i + x]

\* mutant: a rejected task is recorded in stats.errors only, no failed
\* result is pushed
ResultsOfBatch_FulfilledOnly ==
    [x \in 1..Len(SelectSeq(BatchSeq, LAMBDA q : task[q].st = "fulfilled")) |->
        ResultOf(SelectSeq(BatchSeq, LAMBDA q : task[q].st = "fulfilled")[x])]

\* results.push(...) for every entry of batchResults, in batch order
ResultsOfBatch == [x \in DOMAIN BatchSeq |-> ResultOf(BatchSeq[x])]

\* mutant: the loop advances by one key while the batch spans `concurrency`
NextIndex_ByOne == i + 1

\* i += concurrency
NextIndex == i + concurrency

\* batchResults.forEach(...), then the next iteration of the loop
WaveCollect ==
    /\ pc = "awaitWave"
    /\ AllSettled
    /\ results' = results \o ResultsOfBatch
    /\ stats' = [stats EXCEPT !.errors = @ \o
                    [x \in 1..Len(SelectSeq(BatchSeq,
                                   LAMBDA q : task[q].st # "fulfilled")) |->
                        ErrorOf(SelectSeq(BatchSeq,
                                   LAMBDA q : task[q].st # "fulfilled")[x])]]
    /\ i' = NextIndex
    /\ pc' = "loop"
    /\ UNCHANGED <<cpus, symbols, task, files, indexArtifact, metadata, exitCode>>
    /\ UNCHANGED hist
    /\ UNCHANGED stages

\* the loop condition fails: processSymbols returns results
LoopExit ==
    /\ pc = "loop"
    /\ ~(i < Len(symbols))
    /\ pc' = "generate"
    /\ UNCHANGED <<cpus, symbols, i, task, results, stats, files, indexArtifact,
                   metadata, exitCode>>
    /\ UNCHANGED hist
    /\ UNCHANGED stages

\* ----------------------------------------------------- generateApiFiles
Fatal_ExitZero(message) ==
    /\ stats' = [stats EXCEPT !.errors =
                    Append(@, [type |-> "unknown", symbol |-> 0,
                               message |-> message])]
    /\ pc' = "aborted"
    /\ exitCode' = 0

\* process()'s catch block and main()'s: the error is recorded as 'unknown'
\* and the process exits with code 1
Fatal(message) ==
    /\ stats' = [stats EXCEPT !.errors =
                    Append(@, [type |-> "unknown", symbol |-> 0,
                               message |-> message])]
    /\ pc' = "aborted"
    /\ exitCode' = 1

\* processingResults.filter(r => r.success)
successfulResults == SelectSeq(results, LAMBDA r : r.success)

\* generateApiFiles is called and runs up to await ensureDir(dirname(symbolsPath))
GenerateStart ==
    /\ pc = "generate"
    /\ pc' = "indexDir"
    /\ UNCHANGED <<cpus, symbols, i, task, results, stats, files, indexArtifact,
                   metadata, exitCode>>
    /\ UNCHANGED hist
    /\ UNCHANGED stages

\* ensureDir settles; symbols.json is serialized and writeJsonFile is called
\* directly (no retry): size check, then fs.writeFile
IndexDirDone ==
    /\ pc = "indexDir"
    /\ \/ \E len \in BufferLengths :
          /\ indexArtifact' = SortKeys(symbols)
          /\ aggCalls' = [aggCalls EXCEPT !["index"] = @ + 1]
          /\ IF FileTooLarge(len)
             THEN /\ Fatal(TooLarge(0))
                  /\ faults' = faults \cup {<<"size", SymbolsPath>>}
                  /\ UNCHANGED sinkLog
             ELSE /\ sinkLog' = sinkLog \cup {<<SymbolsPath, len>>}
                  /\ pc' = "indexWrite"
                  /\ UNCHANGED <<stats, exitCode, faults>>
       \/ /\ Fatal(MkdirFailed)
          /\ faults' = faults \cup {<<"mkdir", SymbolsPath>>}
          /\ UNCHANGED <<indexArtifact, aggCalls, sinkLog>>
    /\ UNCHANGED <<cpus, symbols, i, task, results, files, metadata, opCalls,
                   delays, attemptErr, launches>>
    /\ UNCHANGED stages

\* mutant: symbolsWithData counts every result, failed ones included
symbolsWithData_AllResults == Len(results)

\* symbolsWithData: successfulResults.length
symbolsWithData == Len(successfulResults)

\* mutant: a group counts as one call when its first contract is a call
CallsIn_FirstOnly(cs) == IF cs # <<>> /\ cs[1].type = "call" THEN 1 ELSE 0

\* the inner loop over one group: calls++ for every contract of type 'call'
RECURSIVE CallsIn(_)
CallsIn(cs) ==
    IF cs = <<>> THEN 0
    ELSE (IF Head(cs).type = "call" THEN 1 ELSE 0) + CallsIn(Tail(cs))

\* mutant: totalContracts reports the rows read, rejected ones included
TotalContracts_RowsRead(ks) == stats.totalRows

\* the outer loop over symbolGroups.values(), in the Map's insertion order
\* (the order of `symbols`): totalContracts += contracts.length
RECURSIVE TotalContracts(_)
TotalContracts(ks) ==
    IF ks = <<>> THEN 0
    ELSE Len(symbolGroups[Head(ks)]) + TotalContracts(Tail(ks))

RECURSIVE Calls(_)
Calls(ks) ==
    IF ks = <<>> THEN 0
    ELSE CallsIn(symbolGroups[Head(ks)]) + Calls(Tail(ks))

\* firstContract: the first contract of the first non-empty group, [] if none
RECURSIVE FirstContract(_)
FirstContract(ks) ==
    IF ks = <<>> THEN <<>>
    ELSE IF symbolGroups[Head(ks)] # <<>> THEN <<symbolGroups[Head(ks)][1]>>
    ELSE FirstContract(Tail(ks))

\* new Date().toISOString().split('T')[0]
Today == DateStr(2026, 1, 2)

\* the metadata object built at lines 357-397
BuildMetadata ==
    [symbolCount |-> Len(successfulResults),
     symbolsWithData |-> symbolsWithData,
     errors |-> Len(stats.errors),
     totalContracts |-> TotalContracts(symbols),
     calls |-> Calls(symbols),
     puts |-> TotalContracts(symbols) - Calls(symbols),
     dataDate |-> IF FirstContract(symbols) # <<>>
                  THEN FirstContract(symbols)[1].date ELSE Today]

\* fs.writeFile(symbolsPath) settles; on success filesSaved++, the metadata
\* object is built and generateApiFiles awaits ensureDir(dirname(metadataPath))
IndexWriteDone ==
    /\ pc = "indexWrite"
    /\ \/ /\ files' = files \cup {SymbolsPath}
          /\ stats' = [stats EXCEPT !.filesSaved = @ + 1]
          /\ metadata' = BuildMetadata
          /\ pc' = "metaDir"
          /\ UNCHANGED <<exitCode, faults>>
       \/ /\ Fatal(WriteFailed(0))
          /\ faults' = faults \cup {<<"sink", SymbolsPath>>}
          /\ UNCHANGED <<files, metadata>>
    /\ UNCHANGED <<cpus, symbols, i, task, results, indexArtifact>>
    /\ UNCHANGED <<opCalls, sinkLog, delays, attemptErr, launches, aggCalls>>
    /\ UNCHANGED stages

\* ensureDir settles; metadata.json is serialized and writeJsonFile is called
MetaDirDone ==
    /\ pc = "metaDir"
    /\ \/ \E len \in BufferLengths :
          /\ aggCalls' = [aggCalls EXCEPT !["metadata"] = @ + 1]
          /\ IF FileTooLarge(len)
             THEN /\ Fatal(TooLarge(0))
                  /\ faults' = faults \cup {<<"size", MetadataPath>>}
                  /\ UNCHANGED sinkLog
             ELSE /\ sinkLog' = sinkLog \cup {<<MetadataPath, len>>}
                  /\ pc' = "metaWrite"
                  /\ UNCHANGED <<stats, exitCode, faults>>
       \/ /\ Fatal(MkdirFailed)
          /\ faults' = faults \cup {<<"mkdir", MetadataPath>>}
          /\ UNCHANGED <<aggCalls, sinkLog>>
    /\ UNCHANGED <<cpus, symbols, i, task, results, files, indexArtifact,
                   metadata, opCalls, delays, attemptErr, launches>>
    /\ UNCHANGED stages

\* fs.writeFile(metadataPath) settles; on success filesSaved++,
\* generateApiFiles returns, process() finishes and main() exits with code 0
MetaWriteDone ==
    /\ pc = "metaWrite"
    /\ \/ /\ files' = files \cup {MetadataPath}
          /\ stats' = [stats EXCEPT !.filesSaved = @ + 1]
          /\ pc' = "done"
          /\ exitCode' = 0
          /\ UNCHANGED faults
       \/ /\ Fatal(WriteFailed(0))
          /\ faults' = faults \cup {<<"sink", MetadataPath>>}
          /\ UNCHANGED files
    /\ UNCHANGED <<cpus, symbols, i, task, results, indexArtifact, metadata>>
    /\ UNCHANGED <<opCalls, sinkLog, delays, attemptErr, launches, aggCalls>>
    /\ UNCHANGED stages

\* ------------------------------------------------------- specification
Next ==
    \/ WaveStart
    \/ \E p \in DOMAIN task : EnsureDirTask(p)
    \/ \E p \in DOMAIN task : SinkWrite(p)
    \/ \E p \in DOMAIN task : SleepDone(p)
    \/ WaveCollect
    \/ LoopExit
    \/ GenerateStart
    \/ IndexDirDone
    \/ IndexWriteDone
    \/ MetaDirDone
    \/ MetaWriteDone

Spec == Init /\ [][Next]_vars

\* --------------------------------------------------------- groupBySymbol
compareContracts_NoStrike(a, b) ==
    IF a.expiration # b.expiration
    THEN (IF StrLess(a.expiration, b.expiration) THEN -1 ELSE 1)
    ELSE IF a.type # b.type THEN (IF a.type = "call" THEN -1 ELSE 1)
    ELSE 0

compareContracts(a, b) ==
    IF a.expiration # b.expiration
    THEN (IF StrLess(a.expiration, b.expiration) THEN -1 ELSE 1)
    ELSE IF a.type # b.type THEN (IF a.type = "call" THEN -1 ELSE 1)
    ELSE a.strike - b.strike

\* sorted \o <<c>> put in order, c going before the first element of sorted
\* that compares equal to it
SortInsert_TiesFirst(sorted, c) ==
    LET before == SelectSeq(sorted, LAMBDA a : compareContracts(a, c) < 0)
        after == SelectSeq(sorted, LAMBDA a : compareContracts(a, c) >= 0)
    IN  before \o <<c>> \o after

\* sorted \o <<c>> put in order, c staying behind the elements of sorted
\* that compare equal to it
SortInsert(sorted, c) ==
    LET before == SelectSeq(sorted, LAMBDA a : compareContracts(a, c) <= 0)
        after == SelectSeq(sorted, LAMBDA a : compareContracts(a, c) > 0)
    IN  before \o <<c>> \o after

\* Array.prototype.sort(compareContracts): the stable sort of cs
RECURSIVE Sort(_)
Sort(cs) ==
    IF cs = <<>> THEN <<>>
    ELSE SortInsert(Sort(SubSeq(cs, 1, Len(cs) - 1)), cs[Len(cs)])

\* mutant: a contract replaces the group of its symbol instead of joining it
RECURSIVE GroupUnsorted_KeepLast(_)
GroupUnsorted_KeepLast(cs) ==
    IF cs = <<>> THEN [keys |-> <<>>, groups |-> <<>>]
    ELSE LET g == GroupUnsorted_KeepLast(SubSeq(cs, 1, Len(cs) - 1))
             c == cs[Len(cs)]
         IN  IF c.symbol \in DOMAIN g.groups
             THEN [g EXCEPT !.groups[c.symbol] = <<c>>]
             ELSE [keys |-> Append(g.keys, c.symbol),
                   groups |-> [k \in DOMAIN g.groups \cup {c.symbol} |->
                                  IF k = c.symbol THEN <<c>> ELSE g.groups[k]]]

\* first pass: the Map after the contracts of cs were pushed to their groups,
\* keys in insertion order
RECURSIVE GroupUnsorted(_)
GroupUnsorted(cs) ==
    IF cs = <<>> THEN [keys |-> <<>>, groups |-> <<>>]
    ELSE LET g == GroupUnsorted(SubSeq(cs, 1, Len(cs) - 1))
             c == cs[Len(cs)]
         IN  IF c.symbol \in DOMAIN g.groups
             THEN [g EXCEPT !.groups[c.symbol] = Append(g.groups[c.symbol], c)]
             ELSE [keys |-> Append(g.keys, c.symbol),
                   groups |-> [k \in DOMAIN g.groups \cup {c.symbol} |->
                                  IF k = c.symbol THEN <<c>> ELSE g.groups[k]]]

\* second pass: every group of more than one contract is sorted
groupBySymbol(cs) ==
    LET g == GroupUnsorted(cs)
    IN  [g EXCEPT !.groups = [k \in DOMAIN g.groups |->
                                 IF Len(g.groups[k]) > 1 THEN Sort(g.groups[k])
                                 ELSE g.groups[k]]]

\* the valid contracts groupBySymbol is given, as <<symbol, expiration, type,
\* strike, bid>>: two symbols; for each, contracts that differ in the
\* expiration, in the type, in the strike, and in the bid only
SomeFields ==
    LET e1 == DateStr(2025, 11, 21)
        e2 == DateStr(2025, 12, 19)
    IN  {<<1, e1, "call", 100 * One, One>>,
         <<1, e1, "call", 100 * One, 2 * One>>,
         <<1, e1, "call", 105 * One, One>>,
         <<1, e1, "put", 100 * One, One>>,
         <<1, e2, "call", 100 * One, One>>,
         <<1, e2, "put", 105 * One, One>>,
         <<2, e1, "call", 100 * One, One>>,
         <<2, e1, "call", 100 * One, 2 * One>>,
         <<2, e1, "put", 100 * One, One>>}

SomeContracts ==
    {Contract(f[1], DateStr(2025, 10, 15), f[2], f[3], f[4], f[5]) :
        f \in SomeFields}

\* processSymbols and generateApiFiles have not been called
RunnerIdle ==
    /\ symbols = <<>>
    /\ i = 0
    /\ task = <<>>
    /\ results = <<>>
    /\ files = {}
    /\ indexArtifact = <<>>
    /\ metadata = NoMetadata
    /\ exitCode = -1
    /\ opCalls = <<>>
    /\ sinkLog = {}
    /\ delays = <<>>
    /\ attemptErr = <<>>
    /\ launches = <<>>
    /\ aggCalls = [a \in {"index", "metadata"} |-> 0]
    /\ faults = {}
    /\ symbolGroups = <<>>

\* the persistence stage holds no keys
PersistenceIdle ==
    /\ cpus = 1
    /\ stats = NewStats
    /\ RunnerIdle

InitPartition ==
    /\ PersistenceIdle
    /\ pc = "group"
    /\ \E n \in 0..MaxContracts : contracts \in [1..n -> SomeContracts]
    /\ grouped = [keys |-> <<>>, groups |-> <<>>]
    /\ raw = <<>>
    /\ validation = <<>>
    /\ ValidateDataIdle

\* const symbolGroups = groupBySymbol(validContracts)
GroupBySymbol ==
    /\ pc = "group"
    /\ grouped' = groupBySymbol(contracts)
    /\ pc' = "grouped"
    /\ UNCHANGED <<cpus, symbols, i, task, results, stats, files,
                   indexArtifact, metadata, exitCode, symbolGroups,
                   contracts, raw, validation>>
    /\ UNCHANGED validateDataVars
    /\ UNCHANGED hist

NextPartition == GroupBySymbol

SpecPartition == InitPartition /\ [][NextPartition]_vars

\* ------------------------------------------------------ validateContract
\* the value undefined of a field that is absent from the row
Undefined == <<"undefined">>

RECURSIVE TrimStart(_)
TrimStart(s) == IF s # <<>> /\ s[1] = " " THEN TrimStart(Tail(s)) ELSE s

RECURSIVE TrimEnd(_)
TrimEnd(s) ==
    IF s # <<>> /\ s[Len(s)] = " " THEN TrimEnd(SubSeq(s, 1, Len(s) - 1)) ELSE s

\* String.prototype.trim
Trim(s) == TrimEnd(TrimStart(s))

CaseOf(c, from, to) ==
    IF \E j \in DOMAIN from : from[j] = c
    THEN to[CHOOSE j \in DOMAIN from : from[j] = c]
    ELSE c

ToUpperCase(s) == [j \in DOMAIN s |-> CaseOf(s[j], LowerChars, UpperChars)]
ToLowerCase(s) == [j \in DOMAIN s |-> CaseOf(s[j], UpperChars, LowerChars)]

\* a JavaScript number: NaN, or the finite value of v units
Num(v) == [nan |-> FALSE, v |-> v]
NaN == [nan |-> TRUE, v |-> 0]
\* a raw numeric field: a number, or undefined when the column is absent
UndefinedNumber == [undefined |-> TRUE, nan |-> FALSE, v |-> 0]
RawNum(v) == [undefined |-> FALSE, nan |-> FALSE, v |-> v]
RawNaN == [undefined |-> FALSE, nan |-> TRUE, v |-> 0]

\* Number(x) of a raw numeric field
Number(x) == IF x.undefined \/ x.nan THEN NaN ELSE Num(x.v)

\* n || 0
OrZero(n) == IF n.nan \/ n.v = 0 THEN Num(0) ELSE n

\* Math.round(n * 10 ** DECIMAL_PRECISION) / 10 ** DECIMAL_PRECISION of a
\* finite n: to the nearest multiple of 10 units, halves going up
Round(n) == ((n.v + 5) \div 10) * 10

IsDigit(c) == \E j \in DOMAIN DigitChars : DigitChars[j] = c
DigitValue(c) == (CHOOSE j \in DOMAIN DigitChars : DigitChars[j] = c) - 1

\* +parts[k] of a string of digits
RECURSIVE ToNumber(_)
ToNumber(s) ==
    IF s = <<>> THEN 0
    ELSE 10 * ToNumber(SubSeq(s, 1, Len(s) - 1)) + DigitValue(s[Len(s)])

\* /^\d{4}-\d{2}-\d{2}$/.test(s)
MatchesDateRegex(s) ==
    /\ Len(s) = 10
    /\ \A j \in {1, 2, 3, 4, 6, 7, 9, 10} : IsDigit(s[j])
    /\ s[5] = "-" /\ s[8] = "-"

IsLeapYear_Every4(y) == y % 4 = 0

IsLeapYear(y) == (y % 4 = 0 /\ y % 100 # 0) \/ y % 400 = 0

DaysInMonth(year, monthIndex) ==
    IF monthIndex = 1 THEN (IF IsLeapYear(year) THEN 29 ELSE 28)
    ELSE IF monthIndex \in {3, 5, 8, 10} THEN 30
    ELSE 31

\* new Date(year, monthIndex, day) for year >= 1000, monthIndex in 0..11 and
\* day in 1..31: a day past the end of the month runs into the next month
NewDate(year, monthIndex, day) ==
    IF day <= DaysInMonth(year, monthIndex)
    THEN [year |-> year, month |-> monthIndex, date |-> day]
    ELSE [year |-> year, month |-> monthIndex + 1,
          date |-> day - DaysInMonth(year, monthIndex)]

isValidDate(dateString) ==
    IF dateString = Undefined \/ dateString = <<>> THEN FALSE
    ELSE IF ~MatchesDateRegex(dateString) THEN FALSE
    ELSE LET year == ToNumber(SubSeq(dateString, 1, 4))
             month == ToNumber(SubSeq(dateString, 6, 7))
             day == ToNumber(SubSeq(dateString, 9, 10))
         IN  IF year < 1000 \/ month < 1 \/ month > 12 \/ day < 1 \/ day > 31
             THEN FALSE
             ELSE LET date == NewDate(year, month - 1, day)
                  IN  date.year = year /\ date.month = month - 1
                      /\ date.date = day

\* normalizeCallPutType throws (a TypeError for undefined included)
ThrowsOnType(type) ==
    \/ type = Undefined
    \/ Trim(ToLowerCase(type)) \notin
          {<<"c">>, <<"c", "a", "l", "l">>, <<"p">>, <<"p", "u", "t">>}

normalizeCallPutType(type) ==
    IF Trim(ToLowerCase(type)) \in {<<"c">>, <<"c", "a", "l", "l">>}
    THEN "call" ELSE "put"

\* error and warning messages, without the raw value they interpolate
MissingCriticalError == "Missing critical fields: symbol, date, or expiration"
StrikeError == "Invalid strike price"
BidError == "Invalid bid"
AskError == "Invalid ask"
NoPriceError == "Contract has no bid or ask price"
DateFormatError == "Invalid date format"
TypeError == "Invalid call/put type"
SpreadWarning == "Bid >= Ask, unusual spread"

\* !raw.act_symbol?.trim() || !raw.date || !raw.expiration
MissingCritical(r) ==
    \/ r.act_symbol = Undefined
    \/ Trim(r.act_symbol) = <<>>
    \/ r.date = Undefined \/ r.date = <<>>
    \/ r.expiration = Undefined \/ r.expiration = <<>>

NumericErrors_FirstOnly(strike, bid, ask) ==
    IF strike.nan \/ strike.v <= 0 THEN <<StrikeError>>
    ELSE IF bid.nan \/ bid.v < 0 THEN <<BidError>>
    ELSE IF ask.nan \/ ask.v < 0 THEN <<AskError>>
    ELSE <<>>

\* the three range checks, each pushing its own error
NumericErrors(strike, bid, ask) ==
    (IF strike.nan \/ strike.v <= 0 THEN <<StrikeError>> ELSE <<>>)
    \o (IF bid.nan \/ bid.v < 0 THEN <<BidError>> ELSE <<>>)
    \o (IF ask.nan \/ ask.v < 0 THEN <<AskError>> ELSE <<>>)

\* bid > 0 && ask > 0 && bid >= ask
SpreadWarnings(bid, ask) ==
    IF ~bid.nan /\ ~ask.nan /\ bid.v > 0 /\ ask.v > 0 /\ bid.v >= ask.v
    THEN <<SpreadWarning>> ELSE <<>>

NoPriceErrors_Never(bid, ask) == <<>>

\* bid === 0 && ask === 0
NoPriceErrors(bid, ask) ==
    IF ~bid.nan /\ ~ask.nan /\ bid.v = 0 /\ ask.v = 0
    THEN <<NoPriceError>> ELSE <<>>

HasErrors_Never(errors) == FALSE

\* errors.length > 0
HasErrors(errors) == errors # <<>>

Rejected(errors, warnings) ==
    [isValid |-> FALSE, errors |-> errors, warnings |-> warnings,
     cleanedData |-> <<>>]

Accepted(errors, warnings, cleanedData) ==
    [isValid |-> TRUE, errors |-> errors, warnings |-> warnings,
     cleanedData |-> <<cleanedData>>]

Max(a, b) == IF a >= b THEN a ELSE b

CleanedData(r, type) ==
    [date |-> Trim(r.date),
     symbol |-> ToUpperCase(Trim(r.act_symbol)),
     expiration |-> Trim(r.expiration),
     strike |-> Round(Number(r.strike)),
     type |-> type,
     bid |-> Round(Number(r.bid)),
     ask |-> Round(Number(r.ask)),
     volume |-> Max(0, OrZero(Number(r.vol)).v),
     delta |-> Round(OrZero(Number(r.delta))),
     gamma |-> Round(OrZero(Number(r.gamma))),
     theta |-> Round(OrZero(Number(r.theta))),
     vega |-> Round(OrZero(Number(r.vega))),
     rho |-> Round(OrZero(Number(r.rho)))]

validateContract(r) ==
    IF MissingCritical(r) THEN Rejected(<<MissingCriticalError>>, <<>>)
    ELSE
    LET strike == Number(r.strike)
        bid == Number(r.bid)
        ask == Number(r.ask)
        errors == NumericErrors(strike, bid, ask) \o NoPriceErrors(bid, ask)
        warnings == SpreadWarnings(bid, ask)
    IN  IF HasErrors(errors) THEN Rejected(errors, warnings)
        ELSE IF ~isValidDate(r.date) \/ ~isValidDate(r.expiration)
        THEN Rejected(Append(errors, DateFormatError), warnings)
        ELSE IF ThrowsOnType(r.call_put)
        THEN Rejected(Append(errors, TypeError), warnings)
        ELSE Accepted(errors, warnings,
                      CleanedData(r, normalizeCallPutType(r.call_put)))

\* RawOptionContract
RawContract(sym, date, expiration, call_put, strike, bid, ask, vol, delta, greek) ==
    [date |-> date, act_symbol |-> sym, expiration |-> expiration,
     strike |-> strike, call_put |-> call_put, bid |-> bid, ask |-> ask,
     vol |-> vol, delta |-> delta, gamma |-> greek, theta |-> greek,
     vega |-> greek, rho |-> greek]

\* string fields as a caller or parseCsv can set them: absent, empty, blank,
\* padded, well-formed, and (dates) not on the calendar
RawSymbols == {Undefined, <<>>, <<" ">>, <<"a">>, <<" ", "a", " ">>}
RawDates == {Undefined, <<>>, <<" ">>, DateStr(2025, 10, 15),
             <<" ">> \o DateStr(2025, 10, 15), DateStr(2023, 2, 29)}
RawExpirations == {Undefined, <<>>, <<" ", " ">>, DateStr(2025, 11, 21),
                   DateStr(2024, 2, 29), DateStr(2025, 13, 1)}
RawTypes == {Undefined, <<"C">>, <<" ", "P", "u", "t", " ">>, <<"x">>}

\* numeric fields: absent, NaN, negative, zero, below the precision, exact
RawStrikes == {UndefinedNumber, RawNaN, RawNum(-One), RawNum(0), RawNum(4),
               RawNum(100 * One + 5), RawNum(100 * One)}
RawBids == {UndefinedNumber, RawNaN, RawNum(-1), RawNum(0), RawNum(4),
            RawNum(One)}
RawAsks == {RawNaN, RawNum(-One), RawNum(0), RawNum(5), RawNum(2 * One)}
RawVols == {UndefinedNumber, RawNaN, RawNum(-3 * One), RawNum(0),
            RawNum(5 * (One \div 2)), RawNum(7 * One)}
RawDeltas == {UndefinedNumber, RawNum(-5), RawNum(54321)}
RawGreeks == {RawNaN, RawNum(-12345)}

\* dates of the form YYYY-MM-DD on and off the calendar: years below and at
\* 1000, century years, a leap and a common year; months 0..13; days 0..32
DashedDates ==
    {DateStr(y, m, d) : y \in {999, 1000, 1900, 2000, 2023, 2024},
                        m \in 0..13, d \in 0..32}

\* dates of another form: month of one digit, no dashes, other separators,
\* a trailing blank, a letter, a year of five digits
OtherDates ==
    {Digits(2023, 4) \o <<"-">> \o Digits(2, 1) \o <<"-">> \o Digits(28, 2),
     Digits(2023, 4) \o Digits(2, 2) \o Digits(28, 2),
     Digits(2023, 4) \o <<" ">> \o Digits(2, 2) \o <<" ">> \o Digits(28, 2),
     DateStr(2023, 2, 28) \o <<" ">>,
     Digits(2023, 4) \o <<"-">> \o Digits(2, 2) \o <<"-", "2", "x">>,
     Digits(12023, 5) \o <<"-">> \o Digits(2, 2) \o <<"-">> \o Digits(28, 2)}

\* rows that vary in their strings, rows that vary in their numbers, and
\* rows that vary in one of their dates
RawContracts ==
    {RawContract(sym, date, expiration, call_put, strike, quote[1], quote[2],
                 RawNum(7 * One), RawNum(54321), RawNum(-12345)) :
        sym \in RawSymbols, date \in RawDates, expiration \in RawExpirations,
        call_put \in RawTypes, strike \in {RawNaN, RawNum(100 * One)},
        quote \in {<<RawNum(0), RawNum(0)>>, <<RawNum(One), RawNum(2 * One)>>,
                   <<RawNum(2 * One), RawNum(One)>>}}
    \cup
    {RawContract(<<" ", "a", " ">>, DateStr(2025, 10, 15),
                 DateStr(2025, 11, 21), <<"C">>, strike, bid, ask, vol, delta,
                 greek) :
        strike \in RawStrikes, bid \in RawBids, ask \in RawAsks,
        vol \in RawVols, delta \in RawDeltas, greek \in RawGreeks}
    \cup
    {RawContract(<<"a">>, dates[1], dates[2], <<"P">>, RawNum(100 * One),
                 RawNum(One), RawNum(2 * One), RawNum(7 * One), RawNum(54321),
                 RawNum(-12345)) :
        dates \in ((DashedDates \cup OtherDates) \X {DateStr(2025, 11, 21)})
                  \cup ({DateStr(2023, 2, 28)} \X (DashedDates \cup OtherDates))}

InitValidate ==
    /\ PersistenceIdle
    /\ pc = "validate"
    /\ contracts = <<>>
    /\ grouped = [keys |-> <<>>, groups |-> <<>>]
    /\ \E r \in RawContracts : raw = <<r>>
    /\ validation = <<>>
    /\ ValidateDataIdle

\* const result = validateContract(row)
ValidateContract ==
    /\ pc = "validate"
    /\ validation' = <<validateContract(raw[1])>>
    /\ pc' = "validated"
    /\ UNCHANGED <<cpus, symbols, i, task, results, stats, files,
                   indexArtifact, metadata, exitCode, symbolGroups,
                   contracts, grouped, raw>>
    /\ UNCHANGED validateDataVars
    /\ UNCHANGED hist

\* the row whose fields are those of a ProcessedOptionContract
AsRawContract(c) ==
    [date |-> c.date, act_symbol |-> c.symbol, expiration |-> c.expiration,
     strike |-> RawNum(c.strike),
     call_put |-> IF c.type = "call" THEN <<"c", "a", "l", "l">>
                  ELSE <<"p", "u", "t">>,
     bid |-> RawNum(c.bid), ask |-> RawNum(c.ask), vol |-> RawNum(c.volume),
     delta |-> RawNum(c.delta), gamma |-> RawNum(c.gamma),
     theta |-> RawNum(c.theta), vega |-> RawNum(c.vega), rho |-> RawNum(c.rho)]

\* validateContract called on the cleanedData of an accepted row
Revalidate ==
    /\ pc = "validated"
    /\ validation[1].isValid
    /\ raw' = <<AsRawContract(validation[1].cleanedData[1])>>
    /\ validation' = <<validateContract(AsRawContract(validation[1].cleanedData[1]))>>
    /\ pc' = "revalidated"
    /\ UNCHANGED <<cpus, symbols, i, task, results, stats, files,
                   indexArtifact, metadata, exitCode, symbolGroups,
                   contracts, grouped>>
    /\ UNCHANGED validateDataVars
    /\ UNCHANGED hist

NextValidate == ValidateContract \/ Revalidate

SpecValidate == InitValidate /\ [][NextValidate]_vars

\* ---------------------------------------------------------- validateData
\* rows of a file: a call and a put of AAPL, the put with bid >= ask; a row
\* with a bid that is not a number; a row with two fields out of range; a
\* call of CAT
QuoteRow(sym, call_put, strike, bid, ask) ==
    RawContract(sym, DateStr(2025, 10, 15), DateStr(2025, 11, 21), call_put,
                strike, bid, ask, RawNum(7 * One), RawNum(54321),
                RawNum(-12345))

AAPL == <<"A", "A", "P", "L">>
CAT == <<"C", "A", "T">>
AaplCall == QuoteRow(AAPL, <<"C">>, RawNum(150 * One), RawNum(One), RawNum(2 * One))
AaplPut == QuoteRow(AAPL, <<"P">>, RawNum(150 * One), RawNum(2 * One), RawNum(One))
AaplBadBid == QuoteRow(AAPL, <<"C">>, RawNum(155 * One), RawNaN, RawNum(2 * One))
AaplBadStrikeAndAsk ==
    QuoteRow(AAPL, <<"P">>, RawNum(0), RawNum(One), RawNum(-One))
CatCall == QuoteRow(CAT, <<"C">>, RawNum(50 * One), RawNum(One), RawNum(2 * One))

SomeRows == {AaplCall, AaplPut, AaplBadBid, AaplBadStrikeAndAsk}

\* the batch sizes: those that split the rows, and the configured one
BatchSizes == (1..MaxRows) \cup {BATCH_SIZE}

\* createError('validation', error, row, rowInfo, row.act_symbol)
ValidationError(message, rowInfo, symbol) ==
    [type |-> "validation", symbol |-> symbol, message |-> message,
     rowNumber |-> rowInfo]

\* `Row ${rowInfo}: ${w}`
RowWarning(message, rowInfo) == [rowNumber |-> rowInfo, message |-> message]

\* rawData.slice(i, i + batchSize).length
BatchLength == Min(batchSize, Len(rawData) - vi)

\* mutant: rows are numbered within their batch
RowInfo_InBatch == vj + 1

\* const rowInfo = i + j + 1
RowInfo == vi + vj + 1

\* mutant: the outer loop skips the row after each batch
NextBatchIndex_SkipOne == vi + batchSize + 1

\* i += batchSize
NextBatchIndex == vi + batchSize

PushErrors_Replace(errors, new) == new

\* result.errors.forEach(error => this.stats.errors.push(createError(...)))
PushErrors(errors, new) == errors \o new

PushAll_Front(valid, batch) == batch \o valid

\* validContracts.push(...batchResults)
PushAll(valid, batch) == valid \o batch

InitValidateAll ==
    /\ cpus = 1
    /\ RunnerIdle
    /\ pc = "validateData"
    /\ \E n \in 0..MaxRows : rawData \in [1..n -> SomeRows]
    /\ batchSize \in BatchSizes
    /\ stats = [NewStats EXCEPT !.totalRows = Len(rawData)]
    /\ vi = 0
    /\ vj = 0
    /\ batchResults = <<>>
    /\ contracts = <<>>
    /\ grouped = [keys |-> <<>>, groups |-> <<>>]
    /\ raw = <<>>
    /\ validation = <<>>

\* one iteration of the inner loop: row i + j + 1 is validated and counted
\* (rows are the objects parseCsv pushed, never undefined)
ValidateRow ==
    /\ pc = "validateData"
    /\ vi < Len(rawData)
    /\ vj < BatchLength
    /\ LET rowInfo == RowInfo
           row == rawData[rowInfo]
           result == validateContract(row)
           accepted == result.isValid /\ result.cleanedData # <<>>
       IN  /\ stats' = [stats EXCEPT
                  !.warnings = @ \o [x \in DOMAIN result.warnings |->
                                        RowWarning(result.warnings[x], rowInfo)],
                  !.validRows = IF accepted THEN @ + 1 ELSE @,
                  !.invalidRows = IF accepted THEN @ ELSE @ + 1,
                  !.errors = IF accepted THEN @
                             ELSE PushErrors(@, [x \in DOMAIN result.errors |->
                                     ValidationError(result.errors[x], rowInfo,
                                                     row.act_symbol)])]
           /\ batchResults' = IF accepted
                              THEN Append(batchResults, result.cleanedData[1])
                              ELSE batchResults
    /\ vj' = vj + 1
    /\ UNCHANGED <<cpus, symbols, pc, i, task, results, files, indexArtifact,
                   metadata, exitCode, symbolGroups, contracts, grouped, raw,
                   validation, rawData, batchSize, vi>>
    /\ UNCHANGED hist

\* the end of one iteration of the outer loop
BatchEnd ==
    /\ pc = "validateData"
    /\ vi < Len(rawData)
    /\ vj = BatchLength
    /\ contracts' = PushAll(contracts, batchResults)
    /\ vi' = NextBatchIndex
    /\ vj' = 0
    /\ batchResults' = <<>>
    /\ UNCHANGED <<cpus, symbols, pc, i, task, results, stats, files,
                   indexArtifact, metadata, exitCode, symbolGroups, grouped,
                   raw, validation, rawData, batchSize>>
    /\ UNCHANGED hist

\* return validContracts
ValidateDataReturn ==
    /\ pc = "validateData"
    /\ vi >= Len(rawData)
    /\ pc' = "group"
    /\ UNCHANGED <<cpus, symbols, i, task, results, stats, files,
                   indexArtifact, metadata, exitCode>>
    /\ UNCHANGED stages
    /\ UNCHANGED hist

NextValidateAll ==
    \/ ValidateRow
    \/ BatchEnd
    \/ ValidateDataReturn

SpecValidateAll == InitValidateAll /\ [][NextValidateAll]_vars

\* ------------------------------------- generateApiFiles on its own input
\* generateApiFiles(symbolGroups, processingResults) called with any map of
\* non-empty groups and any outcome of the per-key writes: a key's write
\* either succeeded at its first attempt or failed at ensureDir
TypeSeqs == UNION {[1..len -> {"call", "put"}] : len \in 1..MaxGroupLen}

GroupsOfTypes(types) ==
    [k \in DOMAIN types |->
        [x \in DOMAIN types[k] |->
            Contract(k, DateStr(2025, 10, 15), DateStr(2025, 11, 21),
                     types[k][x], 100 * One, One)]]

SettledTask(ok) ==
    IF ok THEN [IdleTask EXCEPT !.st = "fulfilled", !.bufLen = MAX_FILE_SIZE,
                                !.size = MAX_FILE_SIZE]
    ELSE [IdleTask EXCEPT !.st = "rejected", !.reason = MkdirFailed]

InitAggregate ==
    /\ cpus = 1
    /\ \E n \in 0..MaxAggKeys : symbols \in KeyOrders(n)
    /\ \E types \in [Range(symbols) -> TypeSeqs] :
          symbolGroups = GroupsOfTypes(types)
    /\ \E ok \in [DOMAIN symbols -> BOOLEAN] :
          /\ task = [p \in DOMAIN symbols |-> SettledTask(ok[p])]
          /\ opCalls = [p \in DOMAIN symbols |-> IF ok[p] THEN 1 ELSE 0]
    /\ pc = "generate"
    /\ i = Len(symbols)
    /\ results = [p \in DOMAIN symbols |-> ResultOf(p)]
    /\ stats = [NewStats EXCEPT
                  !.totalRows = TotalContracts(symbols),
                  !.validRows = TotalContracts(symbols),
                  !.uniqueSymbols = Len(symbols),
                  !.filesSaved = Len(successfulResults),
                  !.errors = [x \in 1..Len(SelectSeq([p \in DOMAIN symbols |-> p],
                                     LAMBDA q : task[q].st = "rejected")) |->
                              ErrorOf(SelectSeq([p \in DOMAIN symbols |-> p],
                                     LAMBDA q : task[q].st = "rejected")[x])]]
    /\ files = {SymbolPath(symbols[p]) : p \in {q \in DOMAIN symbols :
                                                   task[q].st = "fulfilled"}}
    /\ indexArtifact = <<>>
    /\ metadata = NoMetadata
    /\ exitCode = -1
    /\ sinkLog = {<<f, MAX_FILE_SIZE>> : f \in files}
    /\ delays = [p \in DOMAIN symbols |-> <<>>]
    /\ attemptErr = [p \in DOMAIN symbols |-> NoError]
    /\ launches = [k \in Range(symbols) |-> 1]
    /\ aggCalls = [a \in {"index", "metadata"} |-> 0]
    /\ faults = {<<"mkdir", SymbolPath(symbols[p])>> :
                    p \in {q \in DOMAIN symbols : task[q].st = "rejected"}}
    /\ StagesIdle

NextAggregate ==
    \/ GenerateStart
    \/ IndexDirDone
    \/ IndexWriteDone
    \/ MetaDirDone
    \/ MetaWriteDone

SpecAggregate == InitAggregate /\ [][NextAggregate]_vars

\* ------------------------------------------------------------- process
\* the whole run: readInputData, validateData, groupBySymbol, the two
\* ensureDir of the output directories, processSymbols, generateApiFiles
InputPath == <<"input", 0>>
OutputPath == <<"output", 0>>
SymbolsDirPath == <<"symbols", 0>>

\* the rows of the input file, any of which may be absent from it
FileRows == <<CatCall, AaplBadStrikeAndAsk, AaplCall, AaplPut, AaplBadBid>>
InputFiles ==
    {SelectSeq(FileRows, LAMBDA r : r \in present) :
        present \in SUBSET Range(FileRows)}

\* the position of a symbol among the keys of the Map in the order of
\* symbols.sort(), which is the integer that stands for the key
KeyId(symbol, keys) ==
    1 + Cardinality({k \in Range(keys) : StrLess(k, symbol)})
KeyName(k, keys) == CHOOSE name \in Range(keys) : KeyId(name, keys) = k

InitPipeline ==
    /\ cpus \in CpuCounts
    /\ stats = NewStats
    /\ RunnerIdle
    /\ pc = "read"
    /\ StagesIdle

\* await this.readInputData() settles: the rows are loaded and validateData
\* is called, or readCsvFile has thrown (file unreadable, or no data row)
\* and the error is recorded by readInputData and by process()
ReadInput ==
    /\ pc = "read"
    /\ \/ \E rows \in InputFiles :
            /\ rawData' = rows
            /\ stats' = [stats EXCEPT !.totalRows = Len(rows)]
            /\ pc' = "validateData"
            /\ UNCHANGED <<exitCode, faults>>
       \/ /\ stats' = [stats EXCEPT !.errors =
                  @ \o <<[type |-> "file_read", symbol |-> 0,
                          message |-> "Failed to read input data"],
                         [type |-> "unknown", symbol |-> 0,
                          message |-> "Failed to read CSV file"]>>]
          /\ pc' = "aborted"
          /\ exitCode' = 1
          /\ faults' = faults \cup {<<"read", InputPath>>}
          /\ UNCHANGED rawData
    /\ UNCHANGED <<cpus, symbols, i, task, results, files, indexArtifact,
                   metadata, symbolGroups, contracts, grouped, raw, validation,
                   batchSize, vi, vj, batchResults>>
    /\ UNCHANGED <<opCalls, sinkLog, delays, attemptErr, launches, aggCalls>>

\* groupBySymbol(validContracts), uniqueSymbols, up to the first ensureDir
GroupStage ==
    /\ pc = "group"
    /\ grouped' = groupBySymbol(contracts)
    /\ stats' = [stats EXCEPT !.uniqueSymbols = Len(grouped'.keys)]
    /\ pc' = "outDir"
    /\ UNCHANGED <<cpus, symbols, i, task, results, files, indexArtifact,
                   metadata, exitCode, symbolGroups, contracts, raw,
                   validation>>
    /\ UNCHANGED validateDataVars
    /\ UNCHANGED hist

\* await ensureDir(this.apiOutputPath) settles
OutDirDone ==
    /\ pc = "outDir"
    /\ \/ /\ pc' = "symbolsDir"
          /\ UNCHANGED <<stats, exitCode, faults>>
       \/ /\ Fatal(MkdirFailed)
          /\ faults' = faults \cup {<<"mkdir", OutputPath>>}
    /\ UNCHANGED <<cpus, symbols, i, task, results, files, indexArtifact,
                   metadata>>
    /\ UNCHANGED <<opCalls, sinkLog, delays, attemptErr, launches, aggCalls>>
    /\ UNCHANGED stages

\* await ensureDir(join(apiOutputPath, SYMBOLS_DIR)) settles; processSymbols
\* is called with the Map and runs up to its loop
SymbolsDirDone ==
    /\ pc = "symbolsDir"
    /\ \/ /\ symbols' = [x \in DOMAIN grouped.keys |->
                            KeyId(grouped.keys[x], grouped.keys)]
          /\ symbolGroups' = [k \in 1..Len(grouped.keys) |->
                                 grouped.groups[KeyName(k, grouped.keys)]]
          /\ task' = [p \in DOMAIN grouped.keys |-> IdleTask]
          /\ opCalls' = [p \in DOMAIN grouped.keys |-> 0]
          /\ delays' = [p \in DOMAIN grouped.keys |-> <<>>]
          /\ attemptErr' = [p \in DOMAIN grouped.keys |-> NoError]
          /\ launches' = [k \in 1..Len(grouped.keys) |-> 0]
          /\ pc' = "loop"
          /\ UNCHANGED <<stats, exitCode, faults>>
       \/ /\ Fatal(MkdirFailed)
          /\ faults' = faults \cup {<<"mkdir", SymbolsDirPath>>}
          /\ UNCHANGED <<symbols, symbolGroups, task, opCalls, delays,
                         attemptErr, launches>>
    /\ UNCHANGED <<cpus, i, results, files, indexArtifact, metadata,
                   sinkLog, aggCalls, contracts, grouped, raw, validation>>
    /\ UNCHANGED validateDataVars

NextPipeline ==
    \/ ReadInput
    \/ ValidateRow
    \/ BatchEnd
    \/ ValidateDataReturn
    \/ GroupStage
    \/ OutDirDone
    \/ SymbolsDirDone
    \/ WaveStart
    \/ \E p \in DOMAIN task : EnsureDirTask(p)
    \/ \E p \in DOMAIN task : SinkWrite(p)
    \/ \E p \in DOMAIN task : SleepDone(p)
    \/ WaveCollect
    \/ LoopExit
    \/ GenerateStart
    \/ IndexDirDone
    \/ IndexWriteDone
    \/ MetaDirDone
    \/ MetaWriteDone

SpecPipeline == InitPipeline /\ [][NextPipeline]_vars

\* ======================================================================
\* Properties
\* ======================================================================
Keys == Range(symbols)
Path(p) == SymbolPath(symbols[p])
Terminated == pc \in {"done", "aborted"}
\* processSymbols has returned its results
Returned == pc \notin {"loop", "awaitWave"}
ResultsFor(k) == SelectSeq(results, LAMBDA r : r.symbol = k)
FileWriteErrorsFor(k) ==
    SelectSeq(stats.errors, LAMBDA e : e.type = "file_write" /\ e.symbol = k)
OversizeTask(p) == task[p].bufLen > MAX_FILE_SIZE

\* keys whose fs.writeFile calls failed on every attempt
PermanentlyFailed ==
    {p \in DOMAIN task : <<"sink", Path(p)>> \in faults /\ Path(p) \notin files}
\* the only failures of the run are fs.writeFile failures of per-key writes
OnlyKeySinkFaults ==
    \A f \in faults : f[1] = "sink" /\ f[2] \notin {SymbolsPath, MetadataPath}

\* C1: partial-failure isolation. In a run whose only failures are sink
\* failures of per-key writes, with F the keys whose sink writes failed on
\* every attempt: the run ends with exit code 0 (not aborted), symbols.json
\* and metadata.json are both written, and every key outside F has exactly
\* one result, with success = true.
C1_PartialFailureIsolation ==
    (Terminated /\ OnlyKeySinkFaults) =>
        /\ pc = "done" /\ exitCode = 0
        /\ {SymbolsPath, MetadataPath} \subseteq files
        /\ \A p \in DOMAIN task \ PermanentlyFailed :
              /\ Len(ResultsFor(symbols[p])) = 1
              /\ ResultsFor(symbols[p])[1].success

C1_Witness ==
    /\ pc = "done" /\ OnlyKeySinkFaults
    /\ PermanentlyFailed # {}
    /\ \E p \in DOMAIN task \ PermanentlyFailed :
          /\ <<"sink", Path(p)>> \in faults
          /\ ResultsFor(symbols[p])[1].success

\* C2 (as claimed): a key whose payload exceeds MAX_FILE_SIZE is reported
\* failed after exactly one invocation of the write operation and without
\* any backoff delay.
C2_OversizeNeverRetried ==
    \A p \in DOMAIN task :
        (task[p].st = "rejected" /\ OversizeTask(p)) =>
            opCalls[p] = 1 /\ delays[p] = <<>>

\* C3: no payload longer than MAX_FILE_SIZE is ever handed to fs.writeFile,
\* an oversize key never reaches the sink, and once processSymbols has
\* returned every oversize key has a success = false result and a
\* 'file_write' error tagged with it in stats.errors.
C3_SizeCeiling ==
    /\ \A e \in sinkLog : e[2] <= MAX_FILE_SIZE
    /\ \A p \in DOMAIN task :
          OversizeTask(p) =>
              /\ task[p].st # "fulfilled"
              /\ Path(p) \notin files
              /\ Returned =>
                    /\ Len(ResultsFor(symbols[p])) = 1
                    /\ ~ResultsFor(symbols[p])[1].success
                    /\ Len(FileWriteErrorsFor(symbols[p])) = 1

C3_Witness ==
    /\ Returned
    /\ \E p \in DOMAIN task :
          /\ OversizeTask(p)
          /\ ~ResultsFor(symbols[p])[1].success
          /\ FileWriteErrorsFor(symbols[p])[1].message.msg = "File too large"
    /\ \E e \in sinkLog : e[2] = MAX_FILE_SIZE

\* C4 (as claimed): a sink failure on the write of symbols.json or of
\* metadata.json is given up only after 1 + 3 attempts.
C4_AggregateWritesRetried ==
    /\ <<"sink", SymbolsPath>> \in faults => aggCalls["index"] = maxRetries + 1
    /\ <<"sink", MetadataPath>> \in faults => aggCalls["metadata"] = maxRetries + 1

\* C5: once a wave has been collected, every key of it whose task was
\* rejected has exactly one result, with success = false and an error
\* message, and exactly one 'file_write' error tagged with the key in
\* stats.errors; a fulfilled key has no such error; and when processSymbols
\* returns every key's task has run to its own settlement.
C5_FailureRecordedOnce ==
    /\ \A p \in DOMAIN task :
          (p <= i /\ task[p].st = "rejected") =>
              /\ Len(ResultsFor(symbols[p])) = 1
              /\ ~ResultsFor(symbols[p])[1].success
              /\ ResultsFor(symbols[p])[1].error # NoError
              /\ Len(FileWriteErrorsFor(symbols[p])) = 1
    /\ \A p \in DOMAIN task :
          task[p].st = "fulfilled" => Len(FileWriteErrorsFor(symbols[p])) = 0
    /\ Returned => \A p \in DOMAIN task : Settled(task[p])

C5_Witness ==
    /\ Returned
    /\ \E p, q, r \in DOMAIN task :
          /\ p < q /\ q <= concurrency /\ concurrency < r
          /\ task[p].st = "rejected" /\ task[p].reason = MkdirFailed
          /\ task[q].st = "fulfilled"
          /\ task[r].st = "rejected" /\ task[r].reason.attempt = maxRetries
          /\ Len(FileWriteErrorsFor(symbols[p])) = 1
          /\ Len(FileWriteErrorsFor(symbols[r])) = 1

\* C6: when processSymbols has returned, results holds exactly one entry for
\* each key of the map: as many entries as keys, and one per key.
C6_OneResultPerKey ==
    Returned =>
        /\ Len(results) = Len(symbols)
        /\ \A k \in Keys : Len(ResultsFor(k)) = 1
        /\ \A x \in DOMAIN results : results[x].symbol \in Keys

C6_Witness ==
    /\ Returned
    /\ Len(results) = MaxKeys
    /\ \E x, y \in DOMAIN results : results[x].success /\ ~results[y].success

\* the key-writes launched and not yet settled
InFlightTasks == {p \in DOMAIN task : InFlight(task[p])}

\* C7: the number of key-writes launched and not yet settled never exceeds
\* min(MAX_CONCURRENCY, number of keys), and MAX_CONCURRENCY is at most 16.
C7_BoundedInFlight ==
    /\ Cardinality(InFlightTasks) <= Min(MAX_CONCURRENCY, Len(symbols))
    /\ MAX_CONCURRENCY <= 16

C7_Witness ==
    /\ Len(symbols) = 3 /\ cpus = 2
    /\ Cardinality(InFlightTasks) = 2
    /\ \E p \in DOMAIN task : task[p].st = "idle"

\* C8: a key-write is launched only when no key-write is in flight and every
\* key before it has settled; the barrier of a wave is released (the loop
\* index advances) only when every key-write of the wave has settled; and
\* the rejection of one key-write leaves every other key-write as it was.
C8_WaveBarrier ==
    [][ /\ \A p \in DOMAIN task :
             (task[p].st = "idle" /\ task'[p].st # "idle") =>
                 /\ InFlightTasks = {}
                 /\ \A q \in 1..i : Settled(task[q])
        /\ i' # i => \A p \in 1..i' : p \in DOMAIN task => Settled(task[p])
        /\ \A p \in DOMAIN task :
             (task[p].st # "rejected" /\ task'[p].st = "rejected") =>
                 \A q \in DOMAIN task \ {p} : task'[q] = task[q]
      ]_vars

C8_Witness ==
    /\ Len(symbols) = 3 /\ concurrency = 2
    /\ task[1].st = "rejected" /\ task[2].st = "fulfilled"
    /\ task[2].attempt > 0
    /\ task[3].st = "dir"

\* C9: every key is launched at most once at any time and exactly once by
\* the time processSymbols returns, and two distinct in-flight key-writes
\* never target the same key or the same output location.
C9_OneWriterPerKey ==
    /\ \A k \in Keys : launches[k] <= 1
    /\ Returned => \A k \in Keys : launches[k] = 1
    /\ \A p, q \in InFlightTasks :
          p # q => symbols[p] # symbols[q] /\ Path(p) # Path(q)

C9_Witness ==
    /\ Cardinality(InFlightTasks) = MaxKeys
    /\ \A p \in InFlightTasks : task[p].st = "write"

\* C10: retry invokes its operation at most 4 times; a fulfilled key-write
\* made no invocation after its first successful one (one invocation per
\* failed attempt plus one) and returns that invocation's value; a key-write
\* rejected by retry made exactly 4 invocations and is rejected with the
\* error of the 4th.
C10_RetryAttempts ==
    \A p \in DOMAIN task :
        /\ opCalls[p] <= 4
        /\ task[p].st = "fulfilled" =>
              /\ opCalls[p] = Len(delays[p]) + 1
              /\ task[p].size = task[p].bufLen
        /\ (task[p].st = "rejected" /\ task[p].reason # MkdirFailed) =>
              /\ opCalls[p] = 4
              /\ task[p].reason = attemptErr[p]
              /\ task[p].reason.attempt = 3

C10_Witness ==
    \E p, q \in DOMAIN task :
        /\ task[p].st = "rejected" /\ task[p].reason = WriteFailed(3)
        /\ task[q].st = "fulfilled" /\ opCalls[q] = 4

\* C11: the delays a key-write has slept are 1000, 2000, 4000 ms in this
\* order (baseDelay * 2^a after failed attempt a = 0, 1, 2); there is one
\* delay per failed attempt that is followed by another attempt, so a task
\* awaiting attempt a has slept a times, a fulfilled task slept once per
\* failed attempt and not after its success, and a task rejected by retry
\* slept 3 times for its 4 attempts (none after the last).
C11_BackoffDelays ==
    \A p \in DOMAIN task :
        /\ Len(delays[p]) <= 3
        /\ \A a \in DOMAIN delays[p] : delays[p][a] = <<1000, 2000, 4000>>[a]
        /\ task[p].st = "write" => Len(delays[p]) = task[p].attempt
        /\ task[p].st = "sleep" => Len(delays[p]) = task[p].attempt + 1
        /\ task[p].st = "fulfilled" => Len(delays[p]) = opCalls[p] - 1
        /\ (task[p].st = "rejected" /\ task[p].reason # MkdirFailed) =>
              Len(delays[p]) = opCalls[p] - 1

C11_Witness ==
    \E p, q \in DOMAIN task :
        /\ task[p].st = "rejected" /\ delays[p] = <<1000, 2000, 4000>>
        /\ task[q].st = "fulfilled" /\ delays[q] = <<1000, 2000>>

\* C12: the content written to symbols.json is the list of all keys of the
\* map in ascending order, each exactly once, whether or not the key's own
\* write succeeded.
C12_IndexSortedAllKeys ==
    SymbolsPath \in files =>
        /\ Len(indexArtifact) = Len(symbols)
        /\ Range(indexArtifact) = Keys
        /\ \A x, y \in DOMAIN indexArtifact :
              x < y => indexArtifact[x] < indexArtifact[y]

C12_Witness ==
    /\ SymbolsPath \in files
    /\ Len(symbols) = 3 /\ symbols[1] > symbols[2]
    /\ \E r \in Range(results) : ~r.success /\ r.symbol \in Range(indexArtifact)

\* C13: the metadata's coverage.symbolsWithData is the number of results
\* with success = true, so a key whose write failed is not counted.
C13_SymbolsWithData ==
    pc \in {"metaDir", "metaWrite", "done"} =>
        metadata.symbolsWithData =
            Cardinality({x \in DOMAIN results : results[x].success})

C13_Witness ==
    /\ pc = "done"
    /\ metadata.symbolsWithData = 1
    /\ Len(results) = 3

\* C14 (as claimed): the metadata's symbolCount is the number of keys of
\* the map, whatever the persistence outcomes.
C14_SymbolCountIsKeyCount ==
    pc \in {"metaDir", "metaWrite", "done"} =>
        metadata.symbolCount = Len(symbols)

\* the contracts of the map, as <<key, position in the key's group>>
AllContracts == {<<k, x>> \in Keys \X (1..MaxGroupLen + 1) :
                    x \in DOMAIN symbolGroups[k]}
ContractsOfType(t) == {c \in AllContracts : symbolGroups[c[1]][c[2]].type = t}
MetadataBuilt == pc \in {"metaDir", "metaWrite", "done"}

\* C15: in the metadata, totalContracts is the number of contracts of all
\* groups, coverage.calls the number of contracts of type call, coverage.puts
\* the number of type put, and calls + puts = totalContracts, for every
\* outcome of the per-key writes.
C15_ContractCounts ==
    MetadataBuilt =>
        /\ metadata.totalContracts = Cardinality(AllContracts)
        /\ metadata.calls = Cardinality(ContractsOfType("call"))
        /\ metadata.puts = Cardinality(ContractsOfType("put"))
        /\ metadata.calls + metadata.puts = metadata.totalContracts

C15_Witness ==
    /\ pc = "done"
    /\ metadata.calls = 2 /\ metadata.puts = 1
    /\ Len(symbols) = 2
    /\ \E x \in DOMAIN results : ~results[x].success

\* the orderings of a sequence: cs read through a bijection of its positions
Bijections(n) == {f \in [1..n -> 1..n] : \A x, y \in 1..n : x # y => f[x] # f[y]}
Reorderings(cs) == {[x \in DOMAIN cs |-> cs[f[x]]] : f \in Bijections(Len(cs))}

SameSortKey(a, b) ==
    a.expiration = b.expiration /\ a.type = b.type /\ a.strike = b.strike

\* two different contracts of one symbol with the same expiration, type and
\* strike
HasTie(cs) ==
    \E x, y \in DOMAIN cs :
        cs[x] # cs[y] /\ cs[x].symbol = cs[y].symbol /\ SameSortKey(cs[x], cs[y])

SamePartition(g, h) ==
    Range(g.keys) = Range(h.keys) /\ g.groups = h.groups

\* C16 as stated: every permutation of the contracts gives the same keys and
\* the same sequence per key, contracts that tie on expiration, type and
\* strike but differ in other fields included.
C16_AnyPermutationSamePartition ==
    pc = "grouped" =>
        \A perm \in Reorderings(contracts) :
            SamePartition(groupBySymbol(perm), grouped)

\* C16 amended: every permutation of the contracts gives the same keys and
\* the same sequence per key when no two different contracts of one symbol
\* have the same expiration, type and strike.
C16_PermutationSamePartitionNoTies ==
    (pc = "grouped" /\ ~HasTie(contracts)) =>
        \A perm \in Reorderings(contracts) :
            SamePartition(groupBySymbol(perm), grouped)

C16_Witness ==
    /\ pc = "grouped"
    /\ ~HasTie(contracts)
    /\ Len(contracts) = 3
    /\ \E k \in DOMAIN grouped.groups :
          /\ Len(grouped.groups[k]) = 3
          /\ grouped.groups[k] # contracts
          /\ grouped.groups[k][1].strike # grouped.groups[k][2].strike

InOrder(a, b) ==
    \/ StrLess(a.expiration, b.expiration)
    \/ a.expiration = b.expiration /\ a.type = "call" /\ b.type = "put"
    \/ a.expiration = b.expiration /\ a.type = b.type /\ a.strike <= b.strike

\* C17: in every group, adjacent contracts are in (expiration, call before
\* put, strike) order, and the contracts equal on all three appear in the
\* order they have in the input.
C17_GroupsSortedStable ==
    pc = "grouped" =>
        \A k \in DOMAIN grouped.groups :
            LET g == grouped.groups[k]
            IN  /\ \A x \in 1..Len(g) - 1 : InOrder(g[x], g[x + 1])
                /\ \A c \in Range(g) :
                      SelectSeq(g, LAMBDA a : SameSortKey(a, c))
                        = SelectSeq(contracts, LAMBDA a :
                              a.symbol = k /\ SameSortKey(a, c))

C17_Witness ==
    /\ pc = "grouped"
    /\ \E k \in DOMAIN grouped.groups :
          LET g == grouped.groups[k]
          IN  /\ Len(g) = 3
              /\ g # contracts
              /\ SameSortKey(g[1], g[2])
              /\ g[1].bid > g[2].bid

Validated == pc = "validated"
Result == validation[1]
Row == raw[1]

\* C18: validateContract returns isValid exactly when its error list is
\* empty and exactly when cleanedData is present; a rejected row has no
\* cleanedData and at least one error.
C18_ValidIffNoErrorsIffCleaned ==
    Validated =>
        /\ Result.isValid <=> Result.errors = <<>>
        /\ Result.isValid <=> Result.cleanedData # <<>>
        /\ ~Result.isValid =>
              Result.cleanedData = <<>> /\ Len(Result.errors) >= 1

C18_Witness ==
    /\ Validated
    /\ ~Result.isValid
    /\ Len(Result.errors) = 2
    /\ Result.warnings = <<>>

\* a string field that is absent or empty once trimmed
EmptyAfterTrim(s) == s = Undefined \/ Trim(s) = <<>>

\* C19: a row whose symbol, date or expiration is empty after trimming (a
\* blank date or expiration included) is rejected with the single error of
\* the critical-field check, and with no warning.
C19_BlankCriticalFieldSingleError ==
    (Validated /\ (\/ EmptyAfterTrim(Row.act_symbol)
                   \/ EmptyAfterTrim(Row.date)
                   \/ EmptyAfterTrim(Row.expiration))) =>
        /\ ~Result.isValid
        /\ Result.errors = <<MissingCriticalError>>
        /\ Result.warnings = <<>>

\* the numeric fields of the row that are not a number or out of range
Malformed(r) ==
    {f \in {"strike", "bid", "ask"} :
        \/ r[f].undefined \/ r[f].nan
        \/ (f = "strike" /\ r[f].v <= 0)
        \/ (f # "strike" /\ r[f].v < 0)}

NumericErrorsOf(errors) ==
    SelectSeq(errors, LAMBDA e : e \in {StrikeError, BidError, AskError})

\* C20: for a row that passes the critical-field check, each of strike, bid
\* and ask that is not a number or out of range (strike <= 0, bid < 0,
\* ask < 0) adds one error of its own: k such fields give k numeric errors,
\* and the row is rejected when k >= 1.
C20_OneErrorPerMalformedNumber ==
    (Validated /\ ~MissingCritical(Row)) =>
        /\ Len(NumericErrorsOf(Result.errors)) = Cardinality(Malformed(Row))
        /\ ("strike" \in Malformed(Row)) <=>
              (\E x \in DOMAIN Result.errors : Result.errors[x] = StrikeError)
        /\ ("bid" \in Malformed(Row)) <=>
              (\E x \in DOMAIN Result.errors : Result.errors[x] = BidError)
        /\ ("ask" \in Malformed(Row)) <=>
              (\E x \in DOMAIN Result.errors : Result.errors[x] = AskError)
        /\ Malformed(Row) # {} => ~Result.isValid

C20_Witness ==
    /\ Validated
    /\ ~MissingCritical(Row)
    /\ Malformed(Row) = {"strike", "bid", "ask"}
    /\ Result.errors = <<StrikeError, BidError, AskError>>

ParsesToZero(x) == ~x.undefined /\ ~x.nan /\ x.v = 0

\* C21: a row whose bid and ask are both the number 0 is rejected, whatever
\* its other fields are.
C21_ZeroBidAndAskRejected ==
    (Validated /\ ParsesToZero(Row.bid) /\ ParsesToZero(Row.ask)) =>
        /\ ~Result.isValid
        /\ Result.cleanedData = <<>>

C21_Witness ==
    /\ Validated
    /\ ParsesToZero(Row.bid) /\ ParsesToZero(Row.ask)
    /\ Result.errors = <<NoPriceError>>
    /\ ~Result.isValid

\* C22: the cleanedData of an accepted row has bid > 0 or ask > 0 in the
\* values it stores, which are rounded to 4 decimals.
C22_CleanedHasPrice ==
    (Validated /\ Result.isValid) =>
        (Result.cleanedData[1].bid > 0 \/ Result.cleanedData[1].ask > 0)

\* C23: the cleanedData of an accepted row has a strike > 0 and a bid and an
\* ask >= 0, in the values rounded to 4 decimals.
C23_CleanedStrikePositive ==
    (Validated /\ Result.isValid) =>
        /\ Result.cleanedData[1].strike > 0
        /\ Result.cleanedData[1].bid >= 0
        /\ Result.cleanedData[1].ask >= 0

\* C24: the cleanedData of an accepted row has a volume that is an integer
\* >= 0, and 0 when the raw volume is absent, not a number or negative.
C24_VolumeNonNegativeInteger ==
    (Validated /\ Result.isValid) =>
        /\ Result.cleanedData[1].volume >= 0
        /\ Result.cleanedData[1].volume % One = 0
        /\ (Row.vol.undefined \/ Row.vol.nan \/ Row.vol.v < 0) =>
              Result.cleanedData[1].volume = 0

\* the days of the months of a common year
MonthLengths == <<31, 28, 31, 30, 31, 30, 31, 31, 30, 31, 30, 31>>

\* s is YYYY-MM-DD with year >= 1000, month in 1..12 and a day of that month
OnCalendar(s) ==
    /\ s # Undefined
    /\ Len(s) = 10
    /\ \A j \in 1..10 : IF j \in {5, 8} THEN s[j] = "-" ELSE IsDigit(s[j])
    /\ LET y == ToNumber(SubSeq(s, 1, 4))
           m == ToNumber(SubSeq(s, 6, 7))
           d == ToNumber(SubSeq(s, 9, 10))
       IN  /\ y >= 1000
           /\ m \in 1..12
           /\ d >= 1
           /\ d <= (IF m = 2 /\ (y % 400 = 0 \/ (y % 4 = 0 /\ y % 100 # 0))
                    THEN 29 ELSE MonthLengths[m])

\* the row has nothing else to be rejected for than its dates
OnlyDatesInQuestion(r) ==
    /\ ~MissingCritical(r)
    /\ Malformed(r) = {}
    /\ ~(ParsesToZero(r.bid) /\ ParsesToZero(r.ask))
    /\ ~ThrowsOnType(r.call_put)

\* C25: isValidDate accepts a string exactly when it is YYYY-MM-DD with
\* year >= 1000, month in 1..12 and a day that exists in that month of that
\* year; a row with a date or an expiration it rejects is rejected, and a
\* row with nothing else wrong is accepted exactly when both are accepted.
C25_CalendarDates ==
    Validated =>
        /\ isValidDate(Row.date) <=> OnCalendar(Row.date)
        /\ isValidDate(Row.expiration) <=> OnCalendar(Row.expiration)
        /\ (~OnCalendar(Row.date) \/ ~OnCalendar(Row.expiration)) =>
              ~Result.isValid
        /\ OnlyDatesInQuestion(Row) =>
              (Result.isValid <=>
                  (OnCalendar(Row.date) /\ OnCalendar(Row.expiration)))

C25_Witness ==
    /\ Validated
    /\ Row.date = DateStr(2023, 2, 28)
    /\ Row.expiration = DateStr(2024, 2, 29)
    /\ Result.isValid

\* C26: validateContract applied to the cleanedData of an accepted row
\* accepts it and gives the same strike, bid, ask, volume and Greeks.
C26_RevalidationKeepsNumbers ==
    pc = "revalidated" =>
        /\ Result.isValid
        /\ \A f \in {"strike", "bid", "ask", "delta", "gamma", "theta",
                      "vega", "rho"} : Result.cleanedData[1][f] = Row[f].v
        /\ Result.cleanedData[1].volume = Row.vol.v

\* the cleanedData of the rows validateContract accepts, in row order
AcceptedInOrder(rows) ==
    LET verdicts == [x \in DOMAIN rows |-> validateContract(rows[x])]
        accepted == SelectSeq(verdicts, LAMBDA v : v.isValid)
    IN  [x \in DOMAIN accepted |-> accepted[x].cleanedData[1]]

ValidateDataReturned == pc = "group"

\* C27: validateData returns the cleanedData of exactly the accepted rows,
\* in the order of their rows, for every number of rows and every batch
\* size.
C27_AcceptedRowsInOrder ==
    ValidateDataReturned => contracts = AcceptedInOrder(rawData)

C27_Witness ==
    /\ ValidateDataReturned
    /\ Len(rawData) = 3
    /\ batchSize = 2
    /\ ~validateContract(rawData[2]).isValid
    /\ Len(contracts) = 2
    /\ contracts[1].type = "put" /\ contracts[2].type = "call"

\* the failures that are scoped to one key: those at the key's location
KeyFaults == {f \in faults : f[2] \in {SymbolPath(k) : k \in Range(symbols)}}

\* C28: a run that reaches its end exits with code 0, row errors and key
\* failures recorded or not; it exits with a code other than 0 only after a
\* failure outside the rows and the keys (input unreadable, output
\* directories, aggregate artifacts); row errors and key failures alone
\* never abort it.
C28_ExitCodes ==
    /\ pc = "done" <=> exitCode = 0
    /\ pc = "aborted" <=> exitCode = 1
    /\ exitCode \in {-1, 0, 1}
    /\ exitCode = 1 => faults \ KeyFaults # {}
    /\ faults \subseteq KeyFaults => pc # "aborted"

C28_Witness ==
    /\ pc = "done"
    /\ exitCode = 0
    /\ stats.invalidRows >= 1
    /\ \E x \in DOMAIN results : ~results[x].success
    /\ \E x \in DOMAIN results : results[x].success

IsPrefix(a, b) == Len(a) <= Len(b) /\ SubSeq(b, 1, Len(a)) = a

\* C29: in every step the counters validRows, invalidRows, filesSaved,
\* totalRows and uniqueSymbols do not decrease, and the errors and the
\* warnings before the step are a prefix of those after it.
C29_StatsAppendOnly ==
    [][/\ \A f \in {"validRows", "invalidRows", "filesSaved", "totalRows",
                     "uniqueSymbols"} : stats'[f] >= stats[f]
       /\ IsPrefix(stats.errors, stats'.errors)
       /\ IsPrefix(stats.warnings, stats'.warnings)]_vars

C29_Witness ==
    /\ pc = "done"
    /\ stats.validRows = 3 /\ stats.invalidRows = 2
    /\ stats.totalRows = 5 /\ stats.uniqueSymbols = 2
    /\ stats.filesSaved = 3
    /\ Len(stats.warnings) = 1
    /\ Len(stats.errors) = 4

\* the keys of the index artifact, as symbols
IndexNames == [x \in DOMAIN indexArtifact |->
                  KeyName(indexArtifact[x], grouped.keys)]

\* C30: the rows <<AAPL call, AAPL put, AAPL row with a bid that is not a
\* number>> and no failure give, at the end of the run, validRows = 2,
\* invalidRows = 1 with one validation error, a Map with the one key AAPL
\* holding the call and the put in order, one per-key artifact, the index
\* <<AAPL>> and metadata with totalContracts 2, calls 1, puts 1,
\* symbolsWithData 1.
C30_EndToEnd ==
    (pc = "done" /\ rawData = <<AaplCall, AaplPut, AaplBadBid>> /\ faults = {}) =>
        /\ stats.validRows = 2
        /\ stats.invalidRows = 1
        /\ Len(stats.errors) = 1
        /\ stats.errors[1].type = "validation"
        /\ stats.errors[1].message = BidError
        /\ stats.errors[1].rowNumber = 3
        /\ grouped.keys = <<AAPL>>
        /\ Len(grouped.groups[AAPL]) = 2
        /\ grouped.groups[AAPL][1].type = "call"
        /\ grouped.groups[AAPL][2].type = "put"
        /\ \A x \in {1, 2} : grouped.groups[AAPL][x].symbol = AAPL
        /\ {f \in files : f[1] = "symbols"} = {SymbolPath(1)}
        /\ IndexNames = <<AAPL>>
        /\ metadata.totalContracts = 2
        /\ metadata.calls = 1
        /\ metadata.puts = 1
        /\ metadata.symbolsWithData = 1

C30_Witness ==
    /\ pc = "done"
    /\ rawData = <<AaplCall, AaplPut, AaplBadBid>>
    /\ faults = {}
    /\ exitCode = 0

\* C31 (as claimed): statistics change only at a suspension boundary of the
\* orchestrating control flow with no write in flight: after every step
\* that changes stats, no key-write of the wave is still unsettled.
C31_StatsChangeOnlyWithNoWriteInFlight ==
    [][stats' # stats => InFlightTasks' = {}]_vars

\* ----------------------------------------------------------------------
\* The persistence runner under the scheduling of the event loop: a
\* continuation that is ready to run is eventually run, and every awaited
\* operation (mkdir, fs.writeFile, sleep) eventually settles, successfully
\* or not. Some enabled step of the run is therefore eventually taken.
SpecFair == Spec /\ WF_vars(Next)

\* the key-write at position q has settled while the one at p has not
SettledBefore(q, p) ==
    /\ {p, q} \subseteq DOMAIN task
    /\ Settled(task[q])
    /\ ~Settled(task[p])
\* the position of key position p's result in `results` (0 when absent)
ResultIndex(p) ==
    IF p \in DOMAIN symbols /\ \E x \in DOMAIN results : results[x].symbol = symbols[p]
    THEN CHOOSE x \in DOMAIN results : results[x].symbol = symbols[p]
    ELSE 0

\* C32 (as claimed): results are accumulated in the order in which the
\* key-writes settled: whenever one key-write has settled while another has
\* not, the result of the first stands before the result of the second from
\* then on, once both have been accumulated.
C32_ResultsInCompletionOrder ==
    \A p, q \in 1..MaxKeys :
        [](SettledBefore(q, p) =>
              []((ResultIndex(p) # 0 /\ ResultIndex(q) # 0) =>
                     ResultIndex(q) < ResultIndex(p)))

\* C40 (as claimed): when every sink call and every backoff delay
\* eventually completes, processSymbols eventually returns.
C40_PersistAllEventuallyReturns == <>Returned

\* the outcome of validating the first n rows one at a time, in input
\* order: validateContract on each row, counted and recorded with the
\* row's 1-based position in the whole input
RECURSIVE OneAtATime(_, _)
OneAtATime(rows, n) ==
    IF n = 0
    THEN [contracts |-> <<>>, validRows |-> 0, invalidRows |-> 0,
          errors |-> <<>>, warnings |-> <<>>]
    ELSE LET before == OneAtATime(rows, n - 1)
             verdict == validateContract(rows[n])
             accepted == verdict.isValid /\ verdict.cleanedData # <<>>
         IN  [contracts |-> IF accepted
                            THEN Append(before.contracts, verdict.cleanedData[1])
                            ELSE before.contracts,
              validRows |-> before.validRows + (IF accepted THEN 1 ELSE 0),
              invalidRows |-> before.invalidRows + (IF accepted THEN 0 ELSE 1),
              errors |-> IF accepted THEN before.errors
                         ELSE before.errors \o
                              [x \in DOMAIN verdict.errors |->
                                  [type |-> "validation",
                                   symbol |-> rows[n].act_symbol,
                                   message |-> verdict.errors[x],
                                   rowNumber |-> n]],
              warnings |-> before.warnings \o
                           [x \in DOMAIN verdict.warnings |->
                               [rowNumber |-> n,
                                message |-> verdict.warnings[x]]]]

\* C33: chunking is invisible. For every input and every batch size >= 1,
\* validateData returns the same contracts and leaves the same validRows,
\* invalidRows, errors and warnings (each tagged with the row's 1-based
\* position in the whole input) as validating the rows one at a time in
\* input order.
C33_ChunkingInvisible ==
    ValidateDataReturned =>
        LET one == OneAtATime(rawData, Len(rawData))
        IN  /\ contracts = one.contracts
            /\ stats.validRows = one.validRows
            /\ stats.invalidRows = one.invalidRows
            /\ stats.errors = one.errors
            /\ stats.warnings = one.warnings

C33_Witness ==
    /\ ValidateDataReturned
    /\ Len(rawData) = 3
    /\ batchSize = 2
    /\ rawData[2] = AaplCall
    /\ rawData[3] = AaplPut
    /\ \E x \in DOMAIN stats.warnings : stats.warnings[x].rowNumber = 3
    /\ \E x \in DOMAIN stats.errors : stats.errors[x].rowNumber = 1
    /\ Len(contracts) = 2

\* a per-key write has been started
KeyWriteStarted == \E p \in DOMAIN task : task[p].st # "idle"
\* the write of symbols.json or of metadata.json has been started
IndexStarted ==
    \/ aggCalls["index"] > 0
    \/ SymbolsPath \in files
    \/ \E e \in sinkLog : e[1] = SymbolsPath
MetadataStarted ==
    \/ aggCalls["metadata"] > 0
    \/ MetadataPath \in files
    \/ \E e \in sinkLog : e[1] = MetadataPath

\* C34: stage ordering. No per-key write starts before every row has been
\* validated and the accepted rows have been partitioned; symbols.json and
\* metadata.json are written only after every per-key write of every wave
\* has settled and been collected; and symbols.json is written before
\* metadata.json.
C34_StageOrdering ==
    /\ KeyWriteStarted =>
          /\ vi >= Len(rawData)
          /\ stats.validRows + stats.invalidRows = Len(rawData)
          /\ contracts = AcceptedInOrder(rawData)
          /\ grouped = groupBySymbol(contracts)
          /\ Len(symbols) = Len(grouped.keys)
    /\ (IndexStarted \/ MetadataStarted) =>
          /\ \A p \in DOMAIN task : Settled(task[p])
          /\ i >= Len(symbols)
          /\ Len(results) = Len(symbols)
    /\ MetadataStarted => SymbolsPath \in files

C34_Witness ==
    /\ pc = "done"
    /\ cpus = 1
    /\ Len(symbols) = 2
    /\ stats.invalidRows >= 1
    /\ \E p \in DOMAIN task : task[p].st = "rejected"
    /\ {SymbolsPath, MetadataPath} \subseteq files

\* key positions whose write failed on its first 1, 2 or 3 attempts and
\* then succeeded
RetriedThenWritten ==
    {p \in DOMAIN task : task[p].st = "fulfilled" /\ task[p].attempt \in 1..maxRetries}
\* the keys of the waves collected so far
Collected == {p \in DOMAIN task : p <= i}

\* C35: transient failures are absorbed. A key whose write failed on its
\* first 1, 2 or 3 attempts and then succeeded has its file written after
\* one more attempt than failures; once its wave is collected its one
\* result has success = true and stats.errors holds no error for the key;
\* and filesSaved counts it once: filesSaved is the number of fulfilled
\* key-writes plus the aggregate files written.
C35_TransientFailuresAbsorbed ==
    \A p \in RetriedThenWritten :
        /\ opCalls[p] = task[p].attempt + 1
        /\ Len(delays[p]) = task[p].attempt
        /\ <<"sink", Path(p)>> \in faults
        /\ Path(p) \in files
        /\ p \in Collected =>
              /\ Len(ResultsFor(symbols[p])) = 1
              /\ ResultsFor(symbols[p])[1].success
              /\ FileWriteErrorsFor(symbols[p]) = <<>>
        /\ stats.filesSaved =
              Cardinality({q \in DOMAIN task : task[q].st = "fulfilled"})
              + Cardinality(files \cap {SymbolsPath, MetadataPath})

C35_Witness ==
    /\ pc = "done"
    /\ \E p, q \in RetriedThenWritten :
          /\ task[p].attempt = 1
          /\ task[q].attempt = maxRetries
          /\ ResultsFor(symbols[q])[1].success
    /\ stats.filesSaved = 4
    /\ \A x \in DOMAIN stats.errors : stats.errors[x].type # "file_write"

\* the rows validateData has processed so far
RowsSeen == Min(vi, Len(rawData)) + vj

\* C36: after each processed row validRows + invalidRows is the number of
\* rows seen so far and validRows is the number of contracts accepted so
\* far; when validateData has returned, validRows + invalidRows = n =
\* totalRows for the n input rows and the number of returned contracts is
\* validRows.
C36_RowCountsAddUp ==
    pc \in {"validateData", "group"} =>
        /\ stats.validRows + stats.invalidRows = RowsSeen
        /\ stats.validRows = Len(contracts) + Len(batchResults)
        /\ stats.totalRows = Len(rawData)
        /\ ValidateDataReturned =>
              /\ RowsSeen = Len(rawData)
              /\ stats.validRows + stats.invalidRows = stats.totalRows
              /\ Len(contracts) = stats.validRows

C36_Witness ==
    /\ ValidateDataReturned
    /\ Len(rawData) = 3
    /\ batchSize = 2
    /\ stats.totalRows = 3
    /\ stats.validRows = 2
    /\ stats.invalidRows = 1
    /\ Len(contracts) = 2

\* key positions whose file has been written
Written == {p \in DOMAIN task : Path(p) \in files}
\* the results with success = true
Successes == {x \in DOMAIN results : results[x].success}

\* C37: at the end of every completed run filesSaved is the number of
\* results with success = true plus 2 (symbols.json and metadata.json);
\* while processSymbols is running filesSaved is the number of keys whose
\* write has succeeded so far, and so never exceeds it.
C37_FilesSavedAccounting ==
    /\ pc = "done" => stats.filesSaved = Cardinality(Successes) + 2
    /\ pc \in {"loop", "awaitWave"} =>
          /\ stats.filesSaved <= Cardinality(Written)
          /\ stats.filesSaved = Cardinality(Written)
          /\ Cardinality(Successes) <= stats.filesSaved

C37_Witness ==
    /\ pc = "done"
    /\ Len(results) = 2
    /\ Cardinality(Successes) = 1
    /\ stats.filesSaved = 3
    /\ Cardinality(Written) = 1

\* the number of occurrences of c in cs
Occurrences(cs, c) == Len(SelectSeq(cs, LAMBDA a : a = c))
RECURSIVE SumOfSizes(_, _)
SumOfSizes(groups, ks) ==
    IF ks = {} THEN 0
    ELSE LET k == CHOOSE x \in ks : TRUE
         IN  Len(groups[k]) + SumOfSizes(groups, ks \ {k})

\* C38: groupBySymbol loses and duplicates nothing. Every contract occurs
\* in the group of its own symbol as often as in the input and in no other
\* group; no group is empty; the sizes of the groups add up to the number
\* of input contracts; and the keys are the distinct symbols of the input,
\* each once.
C38_PartitionLosesNothing ==
    pc = "grouped" =>
        LET groups == grouped.groups
            symbolsIn == {contracts[x].symbol : x \in DOMAIN contracts}
        IN  /\ \A c \in Range(contracts) :
                  /\ c.symbol \in DOMAIN groups
                  /\ Occurrences(groups[c.symbol], c) = Occurrences(contracts, c)
            /\ \A k \in DOMAIN groups :
                  /\ groups[k] # <<>>
                  /\ \A x \in DOMAIN groups[k] :
                        /\ groups[k][x].symbol = k
                        /\ groups[k][x] \in Range(contracts)
            /\ SumOfSizes(groups, DOMAIN groups) = Len(contracts)
            /\ DOMAIN groups = symbolsIn
            /\ Range(grouped.keys) = symbolsIn
            /\ Len(grouped.keys) = Cardinality(symbolsIn)

C38_Witness ==
    /\ pc = "grouped"
    /\ Len(contracts) = 3
    /\ contracts[1] = contracts[3]
    /\ contracts[2].symbol # contracts[1].symbol
    /\ Len(grouped.keys) = 2
    /\ Len(grouped.groups[contracts[1].symbol]) = 2

\* validateData has returned and accepted no row
AllRowsRejected ==
    /\ pc \notin {"read", "validateData"}
    /\ rawData # <<>>
    /\ stats.invalidRows = Len(rawData)
\* the metadata object has been built
MetadataReady == pc \in {"metaDir", "metaWrite", "done"}

\* C39: a run in which validation rejects every row is not aborted by that:
\* there is no key, so no per-key write is attempted and processSymbols
\* returns no result; it aborts only on a failure of a directory or an
\* aggregate write, and otherwise ends with exit code 0; symbols.json holds
\* the empty list; and the metadata reports totalContracts = 0, calls = 0,
\* puts = 0 and symbolsWithData = 0.
C39_AllRowsRejectedStillCompletes ==
    AllRowsRejected =>
        /\ contracts = <<>>
        /\ symbols = <<>> /\ task = <<>> /\ opCalls = <<>>
        /\ \A e \in sinkLog : e[1] \in {SymbolsPath, MetadataPath}
        /\ files \subseteq {SymbolsPath, MetadataPath}
        /\ results = <<>>
        /\ pc = "aborted" => faults # {}
        /\ pc = "done" => exitCode = 0
        /\ indexArtifact = <<>>
        /\ MetadataReady =>
              /\ metadata.totalContracts = 0
              /\ metadata.calls = 0
              /\ metadata.puts = 0
              /\ metadata.symbolsWithData = 0

C39_Witness ==
    /\ AllRowsRejected
    /\ Len(rawData) = 2
    /\ cpus = 0
    /\ pc = "done"
    /\ exitCode = 0
    /\ files = {SymbolsPath, MetadataPath}
    /\ Len(stats.errors) = 3

====
